---------------------------- MODULE Spec2Model ----------------------------
(***************************************************************************)
(* Translation chat endpoint of trados-ai: the POST handler of the chat    *)
(* route (with and without the refusal retry loop), the stream buffer,     *)
(* the refusal classifier and the language signal extractor.               *)
(*                                                                         *)
(* Text is a sequence of phrases.  A phrase stands for a fixed piece of    *)
(* text; what the code can observe of it (its whitespace-delimited word    *)
(* count, the regular expressions it matches, its script) is given by the  *)
(* tables below.  A backend stream chunk is one phrase, so concatenating   *)
(* chunks is concatenating sequences.                                      *)
(***************************************************************************)
EXTENDS Integers, Sequences, FiniteSets, TLC

(***************************************************************************)
(* Bounds of the model.                                                    *)
(***************************************************************************)
\* the backend emits at most this many chunks in one response
MaxChunks == 2

\* a batch handed to the OCR backend has at most this many images
MaxImages == 3

\* a completed OCR job reports at most this many pages
MaxPages == 2

\* a text handed to a function on its own has at most this many phrases
MaxSampleLen == 2

\* largest tokenCount handed to detectRefusal on its own
MaxTokenCount == 210
\* most text lines in one graded OCR response
MaxLines == 2

\* saveChat calls under way at once for one conversation id
MaxSavers == 2

\* phrases in a response text that is cut into chunks in every way
MaxTextLen == 3

\* streams of one response text whose verdicts are compared
MaxStreams == 2

\* chats in the cached chat list a browser starts with
MaxCachedList == 12

\* calls made on the client store
MaxCalls == 2

\* chats the client store holds
MaxClientChats == 2

(***************************************************************************)
(* Program constants.                                                      *)
(***************************************************************************)
MAX_RETRIES == 2
maxTokensToBuffer == 150
LATE_TOKEN_LIMIT == 200
MEDIUM_TOKEN_LIMIT == 100

\* default of pollForResults
maxAttempts == 60

\* chats whose metadata the browser cache keeps
MAX_CACHED_CHATS == 10

\* null as a language code
NULL == "null"

\* null as a text
NoText == <<"null">>

(***************************************************************************)
(* Phrases.                                                                *)
(*   refuse_en    "I cannot translate this document."                      *)
(*   refuse_fr    "Je ne peux pas traduire ce document."                   *)
(*   sorry        "Désolé,"                                                *)
(*   word         "Certificate"                                            *)
(*   filler       120 plain words of a translation                         *)
(*   refuse_long  "I cannot translate this document." followed by 160      *)
(*                plain words, delivered by the backend as a single chunk  *)
(*   err_text     'An error occurred while processing the response.'       *)
(*   refuse_es    "No puedo traducir este documento."                      *)
(*   refuse_de    "Ich kann nicht übersetzen."                             *)
(*   refuse_ar    "لا أستطيع ترجمة هذه الوثيقة"                            *)
(*   policy       "This violates my guidelines."                           *)
(*   plain_en     "Translate this document"        (user text)             *)
(*   arabic       "ترجم هذه الوثيقة"               (user text)             *)
(*   to_es        "Translate to Spanish"           (user text)             *)
(*   french_kw    "le certificat"                  (user text)             *)
(*   spanish_kw   "el documento para la familia"   (user text)             *)
(*   to_en        "Translate to English"           (user text)             *)
(*   this_to_en   "Translate this document to English"   (user text)       *)
(***************************************************************************)
BackendPhrases == {"refuse_en", "sorry", "word", "filler", "refuse_long"}

\* phrases of the texts handed to detectRefusal on its own
SamplePhrases ==
    BackendPhrases \cup {"refuse_fr", "refuse_es", "refuse_de", "refuse_ar", "policy"}

\* phrases of user messages handed to detectConversationLanguage on its own
UserPhrases ==
    {"plain_en", "arabic", "to_es", "french_kw", "spanish_kw", "to_en", "this_to_en"}

\*  text.split(/\s+/).filter(w => w.length > 0).length of one phrase
Words(p) ==
    CASE p = "refuse_en"   -> 5
      [] p = "refuse_fr"   -> 7
      [] p = "sorry"       -> 1
      [] p = "word"        -> 1
      [] p = "filler"      -> 120
      [] p = "refuse_long" -> 165
      [] p = "err_text"    -> 7
      [] p = "refuse_es"   -> 5
      [] p = "refuse_de"   -> 4
      [] p = "refuse_ar"   -> 5
      [] p = "policy"      -> 4
      [] p = "plain_en"    -> 3
      [] p = "arabic"      -> 3
      [] p = "to_es"       -> 3
      [] p = "french_kw"   -> 2
      [] p = "spanish_kw"  -> 5
      [] p = "to_en"       -> 3
      [] p = "this_to_en"  -> 5
      [] OTHER             -> 1

\* the group of HIGH_CONFIDENCE_PATTERNS ("English refusals", "French refusals",
\* ..., "Policy/guideline mentions") a pattern of which the phrase matches
PatternGroup(p) ==
    CASE p \in {"refuse_en", "refuse_long"} -> "en"
      [] p = "refuse_fr" -> "fr"
      [] p = "refuse_es" -> "es"
      [] p = "refuse_de" -> "de"
      [] p = "refuse_ar" -> "ar"
      [] p = "policy"    -> "policy"
      [] OTHER           -> NULL

\* variant: the list has no German patterns
HIGH_CONFIDENCE_PATTERNS_NoGerman(p) == PatternGroup(p) \notin {NULL, "de"}

\* the phrase matches one of HIGH_CONFIDENCE_PATTERNS
HIGH_CONFIDENCE_PATTERNS(p) == PatternGroup(p) # NULL

\* the phrase matches one of MEDIUM_CONFIDENCE_PATTERNS (/désolé/i)
MEDIUM_CONFIDENCE_PATTERNS(p) == p \in {"sorry"}

RECURSIVE WordCount(_)
WordCount(text) ==
    IF text = <<>> THEN 0 ELSE Words(Head(text)) + WordCount(Tail(text))

\* Math.ceil(words.length * 1.3)
estimateTokenCount(text) == (13 * WordCount(text) + 9) \div 10

\* some pattern of HIGH_CONFIDENCE_PATTERNS tests true on the text
MatchesHigh(text) == \E i \in 1..Len(text) : HIGH_CONFIDENCE_PATTERNS(text[i])

\* some pattern of MEDIUM_CONFIDENCE_PATTERNS tests true on the text
MatchesMedium(text) == \E i \in 1..Len(text) : MEDIUM_CONFIDENCE_PATTERNS(text[i])

\* variant: no position gate
detectRefusalUngated(text, count) ==
    IF MatchesHigh(text)
    THEN [isRefusal |-> TRUE, confidence |-> "high"]
    ELSE IF count < MEDIUM_TOKEN_LIMIT /\ MatchesMedium(text)
    THEN [isRefusal |-> TRUE, confidence |-> "medium"]
    ELSE [isRefusal |-> FALSE, confidence |-> "low"]

\* variant: the medium-confidence patterns are tested first
detectRefusalMediumFirst(text, count) ==
    IF count > LATE_TOKEN_LIMIT
    THEN [isRefusal |-> FALSE, confidence |-> "low"]
    ELSE IF count < MEDIUM_TOKEN_LIMIT /\ MatchesMedium(text)
    THEN [isRefusal |-> TRUE, confidence |-> "medium"]
    ELSE IF MatchesHigh(text)
    THEN [isRefusal |-> TRUE, confidence |-> "high"]
    ELSE [isRefusal |-> FALSE, confidence |-> "low"]

detectRefusal(text, tokenCount) ==
    IF tokenCount > LATE_TOKEN_LIMIT
    THEN [isRefusal |-> FALSE, confidence |-> "low"]
    ELSE IF MatchesHigh(text)
    THEN [isRefusal |-> TRUE, confidence |-> "high"]
    ELSE IF tokenCount < MEDIUM_TOKEN_LIMIT /\ MatchesMedium(text)
    THEN [isRefusal |-> TRUE, confidence |-> "medium"]
    ELSE [isRefusal |-> FALSE, confidence |-> "low"]

(***************************************************************************)
(* Language signal extractor.                                              *)
(***************************************************************************)
\* languages whose indicator regex of detectLanguageFromRefusal the phrase matches
RefusalIndicators(p) ==
    CASE p = "refuse_fr" -> {"fr"}
      [] p = "sorry"     -> {"fr"}
      [] p = "refuse_es" -> {"es"}
      [] p = "refuse_de" -> {"de"}
      [] p = "refuse_ar" -> {"ar"}
      [] OTHER           -> {}

\* scripts whose code-point range the phrase contains
Scripts(p) == IF p \in {"arabic", "refuse_ar"} THEN {"ar"} ELSE {}

\* whole-word keyword matches of the phrase, per keyword list
KeywordCount(p, lang) ==
    CASE p \in {"plain_en", "this_to_en"} /\ lang \in {"fr", "nl"} -> 1     \* 'document'
      [] p = "french_kw" /\ lang = "fr" -> 2               \* 'le', 'certificat'
      [] p = "spanish_kw" /\ lang = "fr" -> 1              \* 'la'
      [] p = "spanish_kw" /\ lang = "es" -> 4              \* 'el', 'documento', 'para', 'la'
      [] p = "spanish_kw" /\ lang \in {"pt", "it"} -> 2    \* 'documento', 'para' / 'la'
      [] OTHER -> 0

\* languages whose "to <language>" pattern of extractTargetLanguage the phrase matches
Instructions(p) ==
    CASE p = "to_es" -> {"es"}
      [] p \in {"to_en", "this_to_en"} -> {"en"}
      [] OTHER -> {}

RefusalOrder == <<"fr", "ar", "es", "de", "pt", "it", "ru", "tr">>
ScriptOrder == <<"ar", "zh", "ja", "ko", "ru">>
KeywordOrder == <<"fr", "es", "de", "pt", "it", "tr", "nl", "pl">>
InstructionOrder == <<"fr", "es", "de", "ar", "pt", "it", "ru", "tr", "en">>

\* first language of order that is in langs, else dflt: the chain of if-returns
FirstOf(order, langs, dflt) ==
    IF \E i \in 1..Len(order) : order[i] \in langs
    THEN order[CHOOSE i \in 1..Len(order) :
                 /\ order[i] \in langs
                 /\ \A j \in 1..(i - 1) : order[j] \notin langs]
    ELSE dflt

detectLanguageFromRefusal(text) ==
    FirstOf(RefusalOrder, UNION {RefusalIndicators(text[i]) : i \in 1..Len(text)}, "en")

detectFromUnicodeScript(text) ==
    FirstOf(ScriptOrder, UNION {Scripts(text[i]) : i \in 1..Len(text)}, NULL)

RECURSIVE countMatches(_, _)
countMatches(text, lang) ==
    IF text = <<>> THEN 0
    ELSE KeywordCount(Head(text), lang) + countMatches(Tail(text), lang)

\* variant: the top entry needs more than 2 matches
detectFromKeywordsAboveTwo(text) ==
    LET best == CHOOSE i \in 1..Len(KeywordOrder) :
                  /\ \A j \in 1..Len(KeywordOrder) :
                        countMatches(text, KeywordOrder[j]) <= countMatches(text, KeywordOrder[i])
                  /\ \A j \in 1..(i - 1) :
                        countMatches(text, KeywordOrder[j]) < countMatches(text, KeywordOrder[i])
    IN IF countMatches(text, KeywordOrder[best]) > 2 THEN KeywordOrder[best] ELSE NULL

\* entries sorted by descending score (the sort is stable), top entry needs >= 2
detectFromKeywords(text) ==
    LET best == CHOOSE i \in 1..Len(KeywordOrder) :
                  /\ \A j \in 1..Len(KeywordOrder) :
                        countMatches(text, KeywordOrder[j]) <= countMatches(text, KeywordOrder[i])
                  /\ \A j \in 1..(i - 1) :
                        countMatches(text, KeywordOrder[j]) < countMatches(text, KeywordOrder[i])
    IN IF countMatches(text, KeywordOrder[best]) >= 2 THEN KeywordOrder[best] ELSE NULL

extractTargetLanguage(msgText) ==
    FirstOf(InstructionOrder, UNION {Instructions(msgText[i]) : i \in 1..Len(msgText)}, NULL)

\* RETRY_CLARIFICATIONS[language] || RETRY_CLARIFICATIONS.en
getRetryClarification(language) ==
    IF language \in {"en", "fr", "ar", "es", "de", "pt", "it", "ru", "tr", "nl", "pl", "ja", "ko", "zh"}
    THEN <<"clarification", language>>
    ELSE <<"clarification", "en">>

(***************************************************************************)
(* Conversation turns.                                                     *)
(***************************************************************************)
Turn(role, kind, text) == [role |-> role, kind |-> kind, text |-> text]

StoredTurns == <<Turn("user", "prior", <<"plain_en">>), Turn("assistant", "prior", <<"word">>)>>

\* what the history store holds for the conversation id before the request
StoredHistories == {<<>>, StoredTurns}

\* the new user turn of the request body
Messages == {Turn("user", "new", <<"plain_en">>)}

\* message of a body that has no message field
NoMessage == Turn("undefined", "undefined", <<>>)

\* id of a body (or chat id of a query string) that has no id
NoId == "undefined"

\* the two POST implementations and the GET handler of route.ts
Handlers == {"part_013", "route", "route_GET"}

Requests == [message : Messages, images : {0, 1}, historyEnabled : BOOLEAN, id : {"chat1"}]

\* POST bodies that lack the message or the id
MalformedRequests ==
    {[message |-> NoMessage, images |-> 0, historyEnabled |-> TRUE, id |-> "chat1"],
     [message |-> Turn("user", "new", <<"plain_en">>), images |-> 0, historyEnabled |-> TRUE,
      id |-> NoId]}

\* GET requests: ?id=chat1, or no id parameter
GetRequests ==
    {[message |-> NoMessage, images |-> 0, historyEnabled |-> TRUE, id |-> i] :
        i \in {"chat1", NoId}}

RECURSIVE extractAllText(_)
extractAllText(messages) ==
    IF messages = <<>> THEN <<>>
    ELSE (IF Head(messages).role = "user" THEN Head(messages).text ELSE <<>>)
         \o extractAllText(Tail(messages))

\* detectConversationLanguage with the keywords tested before the script
detectConversationLanguageKeywordsFirst(message, prior, refusalText) ==
    LET fromRefusal == detectLanguageFromRefusal(refusalText)
        conversationText == extractAllText(prior \o <<message>>)
        scriptLanguage == detectFromUnicodeScript(conversationText)
        keywordLanguage == detectFromKeywords(conversationText)
        targetLanguage == extractTargetLanguage(extractAllText(<<message>>))
    IN IF refusalText # <<>> /\ fromRefusal # "en" THEN fromRefusal
       ELSE IF keywordLanguage # NULL THEN keywordLanguage
       ELSE IF scriptLanguage # NULL THEN scriptLanguage
       ELSE IF targetLanguage # NULL THEN targetLanguage
       ELSE "en"

\* detectConversationLanguage with the instruction tested before the script
detectConversationLanguageInstructionFirst(message, prior, refusalText) ==
    LET fromRefusal == detectLanguageFromRefusal(refusalText)
        conversationText == extractAllText(prior \o <<message>>)
        scriptLanguage == detectFromUnicodeScript(conversationText)
        keywordLanguage == detectFromKeywords(conversationText)
        targetLanguage == extractTargetLanguage(extractAllText(<<message>>))
    IN IF refusalText # <<>> /\ fromRefusal # "en" THEN fromRefusal
       ELSE IF targetLanguage # NULL THEN targetLanguage
       ELSE IF scriptLanguage # NULL THEN scriptLanguage
       ELSE IF keywordLanguage # NULL THEN keywordLanguage
       ELSE "en"

detectConversationLanguage(message, prior, refusalText) ==
    LET fromRefusal == detectLanguageFromRefusal(refusalText)
        conversationText == extractAllText(prior \o <<message>>)
        scriptLanguage == detectFromUnicodeScript(conversationText)
        keywordLanguage == detectFromKeywords(conversationText)
        targetLanguage == extractTargetLanguage(extractAllText(<<message>>))
    IN IF refusalText # <<>> /\ fromRefusal # "en" THEN fromRefusal
       ELSE IF scriptLanguage # NULL THEN scriptLanguage
       ELSE IF keywordLanguage # NULL THEN keywordLanguage
       ELSE IF targetLanguage # NULL THEN targetLanguage
       ELSE "en"

(***************************************************************************)
(* Target language of the translation phase.                               *)
(***************************************************************************)
\* the indicators of detectTargetLanguage, in the order they are searched
\* (the fourth and the seventh in transliteration)
IndicatorOrder ==
    <<"translate to", "traduire en", "traduction en", "tarjim ila", "translation to",
      "en anglais", "en francais", "to english", "to french", "in english", "in french">>

\* the phrase, lower-cased, contains the indicator
HasIndicator(p, ind) ==
    \/ p \in {"to_es", "to_en"} /\ ind = "translate to"
    \/ p \in {"to_en", "this_to_en"} /\ ind = "to english"

\* LANGUAGE_MAP[word after the indicator, punctuation removed], NULL when the
\* map has no such key: "translate to" is followed by "english" in to_en and
\* by "spanish" in to_es; "to english" ends its phrase, so what follows is
\* the empty string or the first word of the next phrase, never a key
AfterIndicator(p, ind) ==
    IF p = "to_en" /\ ind = "translate to" THEN "en-US" ELSE NULL

\* fullText.split(indicator)[1]: the text after the first occurrence
IndicatedTarget(text, ind) ==
    IF \E i \in 1..Len(text) : HasIndicator(text[i], ind)
    THEN AfterIndicator(text[CHOOSE i \in 1..Len(text) :
                               /\ HasIndicator(text[i], ind)
                               /\ \A j \in 1..(i - 1) : ~HasIndicator(text[j], ind)], ind)
    ELSE NULL

\* variant: the fallback is French whatever the conversation language
DefaultTargetFrench(conversationLang) == "fr"

\* the default based on the conversation language, and the ultimate fallback
DefaultTarget(conversationLang) ==
    IF conversationLang = "fr" THEN "en-US"
    ELSE IF conversationLang = "en" THEN "fr"
    ELSE IF conversationLang = "ar" THEN "fr"
    ELSE "fr"

detectTargetLanguage(userMessage, prior) ==
    LET conversationLang == detectConversationLanguage(userMessage, prior, <<>>)
        fullText == userMessage.text
        hits == {k \in 1..Len(IndicatorOrder) :
                    IndicatedTarget(fullText, IndicatorOrder[k]) # NULL}
    IN IF hits # {}
       THEN IndicatedTarget(fullText,
                IndicatorOrder[CHOOSE k \in hits : \A m \in hits : k <= m])
       ELSE DefaultTarget(conversationLang)

\* targets whose 'Translate to <Language>' the phrase contains (case-sensitive)
ExplicitInstructions(p) == IF p = "to_en" THEN {"en-US"} ELSE {}

\* phase 2 of the pipeline: route.ts tests the three literal instructions
\* before it calls detectTargetLanguage
Phase2Target(h, message, prior) ==
    LET explicit == UNION {ExplicitInstructions(message.text[i]) : i \in 1..Len(message.text)}
    IN IF h = "route" /\ explicit # {}
       THEN FirstOf(<<"en-US", "fr", "ar">>, explicit, NULL)
       ELSE detectTargetLanguage(message, prior)

(***************************************************************************)
(* State of one request.                                                   *)
(***************************************************************************)
VARIABLES
    handler,           \* which POST implementation serves the request
    req,               \* the parsed request body
    store,             \* messages the history store holds for the chat id
    pc,                \* position of the handler
    previousMessages,
    allMessages,
    messagesForRetry,
    attempt,
    firstRefusalText,  \* NoText or a text
    out,               \* chunks the backend has sent so far for the current result
    st,                \* state of the current result: "idle", "open", "ended" or "failed"
    firstOutput,       \* the whole output of the result that was drained (the first refusal)
    bufferedText,
    tokenCount,
    detection,         \* result of the last bufferAndCheckRefusal
    fullText,          \* accumulator of consumeFullStream
    pos,               \* chunks the current reader of result.textStream has taken
    response,          \* the Response returned to the caller (type "none": not yet)
    delivered,         \* text the caller has received on a streamed response
    saveCalls,         \* message lists handed to saveChat
    calls,             \* streamText calls made by the retry loop
    detections,        \* results of bufferAndCheckRefusal, one per finished buffering
    language,          \* result of the last detectConversationLanguage
    targetLanguage,    \* target language resolved by phase 2
    backend,           \* OCR backend of a batch: "datalab", "openai" or "mistral"
    images,            \* the batch: what processing each input comes to
    imageIndex,        \* inputs of the batch processed so far
    results,           \* OCR results aggregated so far
    errors,            \* inputs whose processing failed so far
    ocrResult,         \* what the OCR operation returned or raised
    failedSeen,        \* a status check of the job has reported 'failed'
    resultData,        \* pages of the status response that reported 'complete'
    checks,            \* status checks (GET of the check URL) made for the job
    lateLoad,          \* "none"; after a load timeout "pending", then "dropped"
    readFailed,        \* readFailed[n]: the buffering read of attempt n threw
    path,              \* "none", "pipeline", "fallback" (pipeline threw) or "text" (no image)
    redis,             \* the chat record stored under the key of the conversation
    saving,            \* saving[i]: position and locals of the i-th concurrent saveChat call
    setOrder,          \* the calls in the order in which their redis.set took effect
    chats,             \* the chat list of the client store, most recently updated first
    currentChatId,     \* NoChatId or the id of the chat the client shows
    currentMessages,   \* the messages the client shows
    isLoadingMessages, \* a loadChatMessages call has set the loading flag
    localStorage,      \* the browser cache: chat list, sync metadata, messages per chat
    inflight           \* the calls made on the client store, with their positions and locals

vars == <<handler, req, store, pc, previousMessages, allMessages, messagesForRetry,
          attempt, firstRefusalText, out, st, firstOutput, bufferedText, tokenCount, detection,
          fullText, pos, response, delivered, saveCalls, calls, detections, language,
          targetLanguage, backend, images, imageIndex, results, errors, ocrResult,
          failedSeen, resultData, checks, lateLoad, readFailed, path,
          redis, saving, setOrder,
          chats, currentChatId, currentMessages, isLoadingMessages, localStorage, inflight>>

Attempts == 0..MAX_RETRIES

NoDetection == [isRefusal |-> FALSE, confidence |-> "none"]

NoResponse == [status |-> 0, type |-> "none", text |-> <<>>, originalMessages |-> <<>>]

\* no OCR operation is modelled in detail
NoOcrResult == [kind |-> "none"]

\* no status response has reported 'complete'
NoData == <<"null">>

\* what redis.get gives for a key that is not set, as a record
NoChat == [exists |-> FALSE, title |-> <<>>, messages |-> <<>>]

\* no saveChat call is under way on its own
SaveIdle ==
    /\ redis = NoChat
    /\ saving = <<>>
    /\ setOrder = <<>>

\* currentChatId: null
NoChatId == 0

\* getCachedChat(chatId) = null, as a message list
NoCachedChat == <<[chat |-> 0, text |-> "null"]>>

\* ids of the chats a browser may hold
ChatIds == 1..MaxCachedList

\* a localStorage without any of the keys of the application
EmptyStorage ==
    [chatList |-> <<>>, metadata |-> FALSE, cached |-> [k \in ChatIds |-> NoCachedChat]]

\* the client store is not in use
ClientIdle ==
    /\ chats = <<>>
    /\ currentChatId = NoChatId
    /\ currentMessages = <<>>
    /\ isLoadingMessages = FALSE
    /\ localStorage = EmptyStorage
    /\ inflight = <<>>

OcrIdle ==
    /\ backend = NULL
    /\ images = <<>>
    /\ imageIndex = 0
    /\ results = <<>>
    /\ errors = <<>>
    /\ ocrResult = NoOcrResult
    /\ failedSeen = FALSE
    /\ resultData = NoData
    /\ checks = 0

Init ==
    /\ handler \in Handlers
    /\ req \in Requests \cup MalformedRequests \cup GetRequests
    /\ handler = "route_GET" <=> req \in GetRequests
    \* only route.ts reads historyEnabled from the body
    /\ handler = "part_013" => req.historyEnabled /\ req \in Requests
    /\ store \in StoredHistories
    /\ pc = "start"
    /\ previousMessages = <<>>
    /\ allMessages = <<>>
    /\ messagesForRetry = <<>>
    /\ attempt = 0
    /\ firstRefusalText = NoText
    /\ out = <<>>
    /\ st = "idle"
    /\ firstOutput = <<>>
    /\ bufferedText = <<>>
    /\ tokenCount = 0
    /\ detection = NoDetection
    /\ fullText = <<>>
    /\ pos = 0
    /\ response = NoResponse
    /\ delivered = <<>>
    /\ saveCalls = <<>>
    /\ calls = 0
    /\ detections = <<>>
    /\ language = NULL
    /\ targetLanguage = NULL
    /\ OcrIdle
    /\ lateLoad = "none"
    /\ readFailed = [n \in Attempts |-> FALSE]
    /\ path = "none"
    /\ SaveIdle
    /\ ClientIdle

(***************************************************************************)
(* result.textStream.  POST reads one result up to three times: in         *)
(* bufferAndCheckRefusal, in consumeFullStream and in the response built   *)
(* by toUIMessageStreamResponse.  Every access to result.textStream gives  *)
(* a reader of its own over the whole output of the call (the result tees  *)
(* its stream per access): the chunks the backend has already sent are     *)
(* replayed from the first one, then the reader follows the backend.  The  *)
(* break of the buffering loop ends only that reader.                      *)
(***************************************************************************)
\* the reader that has taken p chunks of the current result receives chunk c
ReadChunk(p, c) ==
    IF p < Len(out)
    THEN /\ c = out[p + 1]
         /\ UNCHANGED <<out, st>>
    ELSE /\ st = "open"
         /\ Len(out) < MaxChunks
         /\ c \in BackendPhrases
         /\ out' = Append(out, c)
         /\ UNCHANGED st

\* the reader finds the stream finished
ReadEnd(p) ==
    /\ p = Len(out)
    /\ st \in {"open", "ended"}
    /\ st' = "ended"
    /\ UNCHANGED out

\* the read throws
ReadError(p) ==
    /\ p = Len(out)
    /\ st \in {"open", "failed"}
    /\ st' = "failed"
    /\ UNCHANGED out

(***************************************************************************)
(* POST: history load and the image pipeline.                              *)
(***************************************************************************)
\* the handler has no retry loop: route.ts streams the generative call directly
HasRetryLoop == handler = "part_013"

HistoryEnabledIgnored == TRUE

\* the handler reads historyEnabled from the body (default true)
HistoryEnabled == IF handler = "route" THEN req.historyEnabled ELSE TRUE

\* entry of the flow used for non-image requests or pipeline failures
EnterFallback(all) ==
    /\ attempt' = 0
    /\ firstRefusalText' = NoText
    /\ messagesForRetry' = IF HasRetryLoop THEN all ELSE messagesForRetry
    /\ pc' = IF HasRetryLoop THEN "loop" ELSE "direct"

AfterLoad(prev) ==
    /\ previousMessages' = prev
    /\ allMessages' = prev \o <<req.message>>
    /\ IF req.images > 0
       THEN /\ pc' = "ocr"
            /\ path' = "pipeline"
            /\ UNCHANGED <<attempt, firstRefusalText, messagesForRetry>>
       ELSE /\ path' = "text"
            /\ EnterFallback(prev \o <<req.message>>)

\* the outer catch: status 500 with { error: 'Internal server error', message }
ErrorResponse ==
    [status |-> 500, type |-> "json", text |-> <<"Internal server error">>,
     originalMessages |-> <<>>]

\* the body is destructured and message.role is read: a TypeError without message
ReadMessage ==
    /\ pc = "start"
    /\ handler # "route_GET"
    /\ IF req.message = NoMessage
       THEN /\ response' = ErrorResponse
            /\ pc' = "done"
       ELSE /\ pc' = "load"
            /\ UNCHANGED response
    /\ UNCHANGED <<handler, req, store, previousMessages, allMessages, messagesForRetry,
                   attempt, firstRefusalText, out, st, firstOutput, bufferedText,
                   tokenCount, detection, fullText, pos, delivered, saveCalls, calls,
                   detections, language, targetLanguage, backend, images, imageIndex,
                   results, errors, ocrResult, failedSeen, resultData, checks, lateLoad,
                   readFailed, path, redis, saving, setOrder, chats, currentChatId,
                   currentMessages, isLoadingMessages, localStorage, inflight>>

\* GET: 400 without chat id, else the messages loadChat returns ([] on an error)
GetChat ==
    /\ pc = "start"
    /\ handler = "route_GET"
    /\ IF req.id = NoId
       THEN response' = [status |-> 400, type |-> "json", text |-> <<"Chat ID required">>,
                         originalMessages |-> <<>>]
       ELSE \E messages \in {store, <<>>} :
               response' = [status |-> 200, type |-> "json", text |-> <<>>,
                            originalMessages |-> messages]
    /\ pc' = "done"
    /\ UNCHANGED <<handler, req, store, previousMessages, allMessages, messagesForRetry,
                   attempt, firstRefusalText, out, st, firstOutput, bufferedText,
                   tokenCount, detection, fullText, pos, delivered, saveCalls, calls,
                   detections, language, targetLanguage, backend, images, imageIndex,
                   results, errors, ocrResult, failedSeen, resultData, checks, lateLoad,
                   readFailed, path, redis, saving, setOrder, chats, currentChatId,
                   currentMessages, isLoadingMessages, localStorage, inflight>>

SkipLoad ==
    /\ pc = "load"
    /\ ~HistoryEnabled
    /\ AfterLoad(<<>>)
    /\ UNCHANGED lateLoad
    /\ UNCHANGED <<handler, req, store, out, st, firstOutput, bufferedText, tokenCount,
                   detection, fullText, pos, response, delivered, saveCalls, calls,
                   detections, language, targetLanguage, backend, images, imageIndex,
                   results, errors, ocrResult, failedSeen, resultData, checks, readFailed,
                   redis, saving, setOrder, chats, currentChatId, currentMessages,
                   isLoadingMessages, localStorage, inflight>>

LoadOk ==
    /\ pc = "load"
    /\ HistoryEnabled
    /\ AfterLoad(store)
    /\ UNCHANGED lateLoad
    /\ UNCHANGED <<handler, req, store, out, st, firstOutput, bufferedText, tokenCount,
                   detection, fullText, pos, response, delivered, saveCalls, calls,
                   detections, language, targetLanguage, backend, images, imageIndex,
                   results, errors, ocrResult, failedSeen, resultData, checks, readFailed,
                   redis, saving, setOrder, chats, currentChatId, currentMessages,
                   isLoadingMessages, localStorage, inflight>>

\* loadChat caught an error and returned []
LoadError ==
    /\ pc = "load"
    /\ HistoryEnabled
    /\ AfterLoad(<<>>)
    /\ UNCHANGED lateLoad
    /\ UNCHANGED <<handler, req, store, out, st, firstOutput, bufferedText, tokenCount,
                   detection, fullText, pos, response, delivered, saveCalls, calls,
                   detections, language, targetLanguage, backend, images, imageIndex,
                   results, errors, ocrResult, failedSeen, resultData, checks, readFailed,
                   redis, saving, setOrder, chats, currentChatId, currentMessages,
                   isLoadingMessages, localStorage, inflight>>

\* the 1s/3s timer wins the race: the catch sets previousMessages = []
LoadTimeout ==
    /\ pc = "load"
    /\ HistoryEnabled
    /\ AfterLoad(<<>>)
    /\ lateLoad' = "pending"
    /\ UNCHANGED <<handler, req, store, out, st, firstOutput, bufferedText, tokenCount,
                   detection, fullText, pos, response, delivered, saveCalls, calls,
                   detections, language, targetLanguage, backend, images, imageIndex,
                   results, errors, ocrResult, failedSeen, resultData, checks, readFailed,
                   redis, saving, setOrder, chats, currentChatId, currentMessages,
                   isLoadingMessages, localStorage, inflight>>

\* variant: the late answer replaces what the race settled with
RaceSettledLate(settled, late) == late

\* Promise.race has settled: a later resolution of loadChat is dropped
RaceSettled(settled, late) == settled

\* loadChat resolves after the timer has won the race
LateLoadAnswer ==
    /\ lateLoad = "pending"
    /\ lateLoad' = "dropped"
    /\ \E answer \in {store, <<>>} :
          previousMessages' = RaceSettled(previousMessages, answer)
    /\ UNCHANGED <<handler, req, store, pc, allMessages, messagesForRetry, attempt,
                   firstRefusalText, out, st, firstOutput, bufferedText, tokenCount,
                   detection, fullText, pos, response, delivered, saveCalls, calls,
                   detections, language, targetLanguage, backend, images, imageIndex,
                   results, errors, ocrResult, failedSeen, resultData, checks, readFailed,
                   path, redis, saving, setOrder, chats, currentChatId, currentMessages,
                   isLoadingMessages, localStorage, inflight>>

\* phase 1 returned; phase 2 resolves the target language
OcrOk ==
    /\ pc = "ocr"
    /\ targetLanguage' = Phase2Target(handler, req.message, previousMessages)
    /\ pc' = "translate"
    /\ UNCHANGED <<handler, req, store, previousMessages, allMessages, messagesForRetry,
                   attempt, firstRefusalText, out, st, firstOutput, bufferedText,
                   tokenCount, detection, fullText, pos, response, delivered, saveCalls,
                   calls, detections, language, backend, images, imageIndex, results,
                   errors, ocrResult, failedSeen, resultData, checks, lateLoad, readFailed,
                   path, redis, saving, setOrder, chats, currentChatId, currentMessages,
                   isLoadingMessages, localStorage, inflight>>

\* variant: only phase 1 is inside the try block
InPipelineTryOcrOnly(p) == p = "ocr"

\* the try block of the pipeline encloses phases 1-3 (and the return of the stream)
InPipelineTry(p) == p \in {"ocr", "translate"}

\* OCR, target-language resolution or the start of the translation throws
PipelineThrow ==
    /\ pc \in {"ocr", "translate"}
    /\ IF InPipelineTry(pc)
       THEN /\ path' = "fallback"
            /\ EnterFallback(allMessages)
            /\ UNCHANGED response
       ELSE /\ response' = ErrorResponse
            /\ pc' = "done"
            /\ UNCHANGED <<path, attempt, firstRefusalText, messagesForRetry>>
    /\ UNCHANGED <<handler, req, store, previousMessages, allMessages, out, st,
                   firstOutput, bufferedText, tokenCount, detection, fullText, pos,
                   delivered, saveCalls, calls, detections, language, targetLanguage,
                   backend, images, imageIndex, results, errors, ocrResult, failedSeen,
                   resultData, checks, lateLoad, readFailed, redis, saving, setOrder,
                   chats, currentChatId, currentMessages, isLoadingMessages, localStorage,
                   inflight>>

StreamResponse(original) ==
    [status |-> 200, type |-> "stream", text |-> <<>>, originalMessages |-> original]

\* phases 2-4: the translation (or formatter) call is started and its stream returned
PipelineRespond ==
    /\ pc = "translate"
    /\ st' = "open"
    /\ out' = <<>>
    /\ response' = StreamResponse(allMessages)
    /\ pos' = 0
    /\ delivered' = <<>>
    /\ pc' = "deliver"
    /\ UNCHANGED <<handler, req, store, previousMessages, allMessages, messagesForRetry,
                   attempt, firstRefusalText, firstOutput, bufferedText, tokenCount,
                   detection, fullText, saveCalls, calls, detections, language,
                   targetLanguage, backend, images, imageIndex, results, errors, ocrResult,
                   failedSeen, resultData, checks, lateLoad, readFailed, path, redis,
                   saving, setOrder, chats, currentChatId, currentMessages,
                   isLoadingMessages, localStorage, inflight>>

\* route.ts: "Return the streaming response directly (no refusal checking)"
DirectRespond ==
    /\ pc = "direct"
    /\ st' = "open"
    /\ out' = <<>>
    /\ response' = StreamResponse(allMessages)
    /\ pos' = 0
    /\ delivered' = <<>>
    /\ pc' = "deliver"
    /\ UNCHANGED <<handler, req, store, previousMessages, allMessages, messagesForRetry,
                   attempt, firstRefusalText, firstOutput, bufferedText, tokenCount,
                   detection, fullText, saveCalls, calls, detections, language,
                   targetLanguage, backend, images, imageIndex, results, errors, ocrResult,
                   failedSeen, resultData, checks, lateLoad, readFailed, path, redis,
                   saving, setOrder, chats, currentChatId, currentMessages,
                   isLoadingMessages, localStorage, inflight>>

(***************************************************************************)
(* POST: the retry loop, with bufferAndCheckRefusal and consumeFullStream  *)
(* unfolded at their stream reads.                                         *)
(***************************************************************************)
\* the loop may go on: the previous bufferAndCheckRefusal has been awaited
AwaitedNoWait == pc \in {"loop", "buffering"}

Awaited == pc = "loop"

\* while (attempt <= MAX_RETRIES) { result = streamText(...); await bufferAndCheckRefusal(result, 150)
StartAttempt ==
    /\ Awaited
    /\ attempt <= MAX_RETRIES
    /\ st' = "open"
    /\ out' = <<>>
    /\ calls' = calls + 1
    /\ bufferedText' = <<>>
    /\ tokenCount' = 0
    /\ pos' = 0
    /\ pc' = "buffering"
    /\ UNCHANGED <<handler, req, store, previousMessages, allMessages, messagesForRetry,
                   attempt, firstRefusalText, firstOutput, detection, fullText, response,
                   delivered, saveCalls, detections, language, targetLanguage, backend,
                   images, imageIndex, results, errors, ocrResult, failedSeen, resultData,
                   checks, lateLoad, readFailed, path, redis, saving, setOrder, chats,
                   currentChatId, currentMessages, isLoadingMessages, localStorage,
                   inflight>>

\* bufferAndCheckRefusal returns d to POST
Classified(d) ==
    /\ detection' = d
    /\ detections' = Append(detections, d)
    /\ pc' = "classified"

\* variant: the loop has no break
BudgetNeverReached(count) == FALSE

\* if (tokenCount >= maxTokensToBuffer) break
BudgetReached(count) == count >= maxTokensToBuffer

\* one iteration of the for-await of bufferAndCheckRefusal
BufferChunk ==
    /\ pc = "buffering"
    /\ \E c \in BackendPhrases :
        /\ ReadChunk(pos, c)
        /\ bufferedText' = bufferedText \o <<c>>
        /\ tokenCount' = estimateTokenCount(bufferedText \o <<c>>)
        /\ pos' = pos + 1
        /\ IF BudgetReached(estimateTokenCount(bufferedText \o <<c>>))
           THEN Classified(detectRefusal(bufferedText \o <<c>>,
                                         estimateTokenCount(bufferedText \o <<c>>)))
           ELSE UNCHANGED <<detection, detections, pc>>
    /\ UNCHANGED <<handler, req, store, previousMessages, allMessages, messagesForRetry,
                   attempt, firstRefusalText, firstOutput, fullText, response, delivered,
                   saveCalls, calls, language, targetLanguage, backend, images, imageIndex,
                   results, errors, ocrResult, failedSeen, resultData, checks, lateLoad,
                   readFailed, path, redis, saving, setOrder, chats, currentChatId,
                   currentMessages, isLoadingMessages, localStorage, inflight>>

\* the stream ends before the budget is reached
BufferEnd ==
    /\ pc = "buffering"
    /\ ReadEnd(pos)
    /\ Classified(detectRefusal(bufferedText, tokenCount))
    /\ UNCHANGED <<handler, req, store, previousMessages, allMessages, messagesForRetry,
                   attempt, firstRefusalText, firstOutput, bufferedText, tokenCount,
                   fullText, pos, response, delivered, saveCalls, calls, language,
                   targetLanguage, backend, images, imageIndex, results, errors, ocrResult,
                   failedSeen, resultData, checks, lateLoad, readFailed, path, redis,
                   saving, setOrder, chats, currentChatId, currentMessages,
                   isLoadingMessages, localStorage, inflight>>

\* variant: the catch block classifies what was buffered
StreamFailureResultClassified(buffered, count) == detectRefusal(buffered, count)

\* the value returned by the catch block of bufferAndCheckRefusal
StreamFailureResult(buffered, count) == [isRefusal |-> FALSE, confidence |-> "low"]

\* the catch block of bufferAndCheckRefusal
BufferError ==
    /\ pc = "buffering"
    /\ ReadError(pos)
    /\ readFailed' = [readFailed EXCEPT ![attempt] = TRUE]
    /\ Classified(StreamFailureResult(bufferedText, tokenCount))
    /\ UNCHANGED <<handler, req, store, previousMessages, allMessages, messagesForRetry,
                   attempt, firstRefusalText, firstOutput, bufferedText, tokenCount,
                   fullText, pos, response, delivered, saveCalls, calls, language,
                   targetLanguage, backend, images, imageIndex, results, errors, ocrResult,
                   failedSeen, resultData, checks, lateLoad, path, redis, saving, setOrder,
                   chats, currentChatId, currentMessages, isLoadingMessages, localStorage,
                   inflight>>

\* variant: the confidence is not looked at
HighRefusalAnyConfidence(d) == d.isRefusal

\* detection.isRefusal && detection.confidence === 'high'
HighRefusal(d) == d.isRefusal /\ d.confidence = "high"

\* variant: every detection is retried while attempts remain
ShouldRetryAlways(d, n) == n < MAX_RETRIES

\* variant: one retry too many
ShouldRetryOffByOne(d, n) == HighRefusal(d) /\ n <= MAX_RETRIES

\* if (... && attempt < MAX_RETRIES)
ShouldRetry(d, n) == HighRefusal(d) /\ n < MAX_RETRIES

\* variant: gives up one attempt early
ExhaustedEarly(d, n) == HighRefusal(d) /\ n >= MAX_RETRIES - 1

\* if (... && attempt >= MAX_RETRIES)
Exhausted(d, n) == HighRefusal(d) /\ n >= MAX_RETRIES

\* a JavaScript string is falsy when null or empty
Falsy(text) == text = NoText \/ text = <<>>

\* language = detectConversationLanguage(...); messagesForRetry.push(clarification);
\* attempt++; continue
Clarify ==
    /\ language' = detectConversationLanguage(req.message, previousMessages, bufferedText)
    /\ messagesForRetry' =
          Append(messagesForRetry,
                 Turn("user", "clarification",
                      getRetryClarification(
                          detectConversationLanguage(req.message, previousMessages,
                                                     bufferedText))))
    /\ attempt' = attempt + 1
    /\ pc' = "loop"

\* first refusal: consumeFullStream(result) is called
StartDrain ==
    /\ pc = "classified"
    /\ ShouldRetry(detection, attempt)
    /\ Falsy(firstRefusalText)
    /\ fullText' = <<>>
    /\ pos' = 0
    /\ pc' = "draining"
    /\ UNCHANGED <<handler, req, store, previousMessages, allMessages, messagesForRetry,
                   attempt, firstRefusalText, out, st, firstOutput, bufferedText,
                   tokenCount, detection, response, delivered, saveCalls, calls,
                   detections, language, targetLanguage, backend, images, imageIndex,
                   results, errors, ocrResult, failedSeen, resultData, checks, lateLoad,
                   readFailed, path, redis, saving, setOrder, chats, currentChatId,
                   currentMessages, isLoadingMessages, localStorage, inflight>>

\* a later refusal: firstRefusalText is kept
RetryAgain ==
    /\ pc = "classified"
    /\ ShouldRetry(detection, attempt)
    /\ ~Falsy(firstRefusalText)
    /\ Clarify
    /\ UNCHANGED <<handler, req, store, previousMessages, allMessages, firstRefusalText,
                   out, st, firstOutput, bufferedText, tokenCount, detection, fullText,
                   pos, response, delivered, saveCalls, calls, detections, targetLanguage,
                   backend, images, imageIndex, results, errors, ocrResult, failedSeen,
                   resultData, checks, lateLoad, readFailed, path, redis, saving, setOrder,
                   chats, currentChatId, currentMessages, isLoadingMessages, localStorage,
                   inflight>>

\* one iteration of the for-await of consumeFullStream
DrainChunk ==
    /\ pc = "draining"
    /\ \E c \in BackendPhrases :
        /\ ReadChunk(pos, c)
        /\ fullText' = fullText \o <<c>>
    /\ pos' = pos + 1
    /\ UNCHANGED <<handler, req, store, pc, previousMessages, allMessages,
                   messagesForRetry, attempt, firstRefusalText, firstOutput, bufferedText,
                   tokenCount, detection, response, delivered, saveCalls, calls,
                   detections, language, targetLanguage, backend, images, imageIndex,
                   results, errors, ocrResult, failedSeen, resultData, checks, lateLoad,
                   readFailed, path, redis, saving, setOrder, chats, currentChatId,
                   currentMessages, isLoadingMessages, localStorage, inflight>>

\* firstRefusalText = detection.bufferedText + fullRefusal
firstRefusal(buffered, fullRefusal) == buffered \o fullRefusal

\* consumeFullStream returns fullText
DrainEnd ==
    /\ pc = "draining"
    /\ ReadEnd(pos)
    /\ firstRefusalText' = firstRefusal(bufferedText, fullText)
    /\ firstOutput' = out
    /\ Clarify
    /\ UNCHANGED <<handler, req, store, previousMessages, allMessages, bufferedText,
                   tokenCount, detection, fullText, pos, response, delivered, saveCalls,
                   calls, detections, targetLanguage, backend, images, imageIndex, results,
                   errors, ocrResult, failedSeen, resultData, checks, lateLoad, readFailed,
                   path, redis, saving, setOrder, chats, currentChatId, currentMessages,
                   isLoadingMessages, localStorage, inflight>>

\* the catch block of consumeFullStream: fullText || 'An error occurred ...'
DrainError ==
    /\ pc = "draining"
    /\ ReadError(pos)
    /\ firstRefusalText' =
          firstRefusal(bufferedText, IF fullText = <<>> THEN <<"err_text">> ELSE fullText)
    /\ firstOutput' = out
    /\ Clarify
    /\ UNCHANGED <<handler, req, store, previousMessages, allMessages, bufferedText,
                   tokenCount, detection, fullText, pos, response, delivered, saveCalls,
                   calls, detections, targetLanguage, backend, images, imageIndex, results,
                   errors, ocrResult, failedSeen, resultData, checks, lateLoad, readFailed,
                   path, redis, saving, setOrder, chats, currentChatId, currentMessages,
                   isLoadingMessages, localStorage, inflight>>

\* variant: the refusal is reported like an internal error
RefusalResponseAsError(text) ==
    [status |-> 500, type |-> "json", text |-> text, originalMessages |-> <<>>]

\* new Response(firstRefusalText || detection.bufferedText, { status: 200, text/plain })
RefusalResponse(text) ==
    [status |-> 200, type |-> "plain", text |-> text, originalMessages |-> <<>>]

ExhaustedRefusal ==
    /\ pc = "classified"
    /\ Exhausted(detection, attempt)
    /\ response' = RefusalResponse(IF Falsy(firstRefusalText) THEN bufferedText
                                   ELSE firstRefusalText)
    /\ pc' = "done"
    /\ UNCHANGED <<handler, req, store, previousMessages, allMessages, messagesForRetry,
                   attempt, firstRefusalText, out, st, firstOutput, bufferedText,
                   tokenCount, detection, fullText, pos, delivered, saveCalls, calls,
                   detections, language, targetLanguage, backend, images, imageIndex,
                   results, errors, ocrResult, failedSeen, resultData, checks, lateLoad,
                   readFailed, path, redis, saving, setOrder, chats, currentChatId,
                   currentMessages, isLoadingMessages, localStorage, inflight>>

\* variant: the retry-scoped copy is handed over
SavedHistoryRetryScoped == messagesForRetry

\* originalMessages of the success response
SavedHistory == allMessages

ResponseStartAfterBuffer(p) == p

\* result.toUIMessageStreamResponse reads the result's output from its first chunk,
\* wherever the reader of bufferAndCheckRefusal stopped
ResponseStart(p) == 0

\* return result.toUIMessageStreamResponse({ originalMessages: allMessages, onFinish })
Succeeded ==
    /\ pc = "classified"
    /\ ~ShouldRetry(detection, attempt)
    /\ ~Exhausted(detection, attempt)
    /\ response' = StreamResponse(SavedHistory)
    /\ pos' = ResponseStart(pos)
    /\ delivered' = <<>>
    /\ pc' = "deliver"
    /\ UNCHANGED <<handler, req, store, previousMessages, allMessages, messagesForRetry,
                   attempt, firstRefusalText, out, st, firstOutput, bufferedText,
                   tokenCount, detection, fullText, saveCalls, calls, detections, language,
                   targetLanguage, backend, images, imageIndex, results, errors, ocrResult,
                   failedSeen, resultData, checks, lateLoad, readFailed, path, redis,
                   saving, setOrder, chats, currentChatId, currentMessages,
                   isLoadingMessages, localStorage, inflight>>

(***************************************************************************)
(* The streamed response and onFinish.                                     *)
(***************************************************************************)
DeliverChunk ==
    /\ pc = "deliver"
    /\ \E c \in BackendPhrases :
        /\ ReadChunk(pos, c)
        /\ delivered' = delivered \o <<c>>
    /\ pos' = pos + 1
    /\ UNCHANGED <<handler, req, store, pc, previousMessages, allMessages,
                   messagesForRetry, attempt, firstRefusalText, firstOutput, bufferedText,
                   tokenCount, detection, fullText, response, saveCalls, calls, detections,
                   language, targetLanguage, backend, images, imageIndex, results, errors,
                   ocrResult, failedSeen, resultData, checks, lateLoad, readFailed, path,
                   redis, saving, setOrder, chats, currentChatId, currentMessages,
                   isLoadingMessages, localStorage, inflight>>

\* the stream finishes (normally or with an error part): onFinish is called
DeliverEnd ==
    /\ pc = "deliver"
    /\ ReadEnd(pos) \/ ReadError(pos)
    /\ pc' = "finish"
    /\ UNCHANGED <<handler, req, store, previousMessages, allMessages, messagesForRetry,
                   attempt, firstRefusalText, firstOutput, bufferedText, tokenCount,
                   detection, fullText, pos, response, delivered, saveCalls, calls,
                   detections, language, targetLanguage, backend, images, imageIndex,
                   results, errors, ocrResult, failedSeen, resultData, checks, lateLoad,
                   readFailed, path, redis, saving, setOrder, chats, currentChatId,
                   currentMessages, isLoadingMessages, localStorage, inflight>>

\* variant: only the new turns are handed over
FinishMessagesNewOnly == <<req.message, Turn("assistant", "response", delivered)>>

\* messages passed to onFinish: originalMessages and the response message
FinishMessages == response.originalMessages \o <<Turn("assistant", "response", delivered)>>

\* if (!historyEnabled) return
SkipSave ==
    /\ pc = "finish"
    /\ ~HistoryEnabled
    /\ pc' = "done"
    /\ UNCHANGED <<handler, req, store, previousMessages, allMessages, messagesForRetry,
                   attempt, firstRefusalText, out, st, firstOutput, bufferedText,
                   tokenCount, detection, fullText, pos, response, delivered, saveCalls,
                   calls, detections, language, targetLanguage, backend, images,
                   imageIndex, results, errors, ocrResult, failedSeen, resultData, checks,
                   lateLoad, readFailed, path, redis, saving, setOrder, chats,
                   currentChatId, currentMessages, isLoadingMessages, localStorage,
                   inflight>>

\* await saveChat(chatId, messages)
SaveOk ==
    /\ pc = "finish"
    /\ HistoryEnabled
    /\ saveCalls' = Append(saveCalls, FinishMessages)
    /\ store' = FinishMessages
    /\ pc' = "done"
    /\ UNCHANGED <<handler, req, previousMessages, allMessages, messagesForRetry, attempt,
                   firstRefusalText, out, st, firstOutput, bufferedText, tokenCount,
                   detection, fullText, pos, response, delivered, calls, detections,
                   language, targetLanguage, backend, images, imageIndex, results, errors,
                   ocrResult, failedSeen, resultData, checks, lateLoad, readFailed, path,
                   redis, saving, setOrder, chats, currentChatId, currentMessages,
                   isLoadingMessages, localStorage, inflight>>

\* variant: the error of saveChat reaches the caller
SaveFailurePropagated(r) == ErrorResponse

\* catch (error) { console.error(...) }: nothing is thrown on
AfterSaveFailure(r) == r

\* saveChat throws; the catch in onFinish logs it
SaveFail ==
    /\ pc = "finish"
    /\ HistoryEnabled
    /\ saveCalls' = Append(saveCalls, FinishMessages)
    /\ response' = AfterSaveFailure(response)
    /\ pc' = "done"
    /\ UNCHANGED <<handler, req, store, previousMessages, allMessages, messagesForRetry,
                   attempt, firstRefusalText, out, st, firstOutput, bufferedText,
                   tokenCount, detection, fullText, pos, delivered, calls, detections,
                   language, targetLanguage, backend, images, imageIndex, results, errors,
                   ocrResult, failedSeen, resultData, checks, lateLoad, readFailed, path,
                   redis, saving, setOrder, chats, currentChatId, currentMessages,
                   isLoadingMessages, localStorage, inflight>>

Next ==
    \/ ReadMessage \/ GetChat
    \/ SkipLoad \/ LoadOk \/ LoadError \/ LoadTimeout \/ LateLoadAnswer
    \/ OcrOk \/ PipelineThrow \/ PipelineRespond \/ DirectRespond
    \/ StartAttempt \/ BufferChunk \/ BufferEnd \/ BufferError
    \/ StartDrain \/ RetryAgain \/ DrainChunk \/ DrainEnd \/ DrainError
    \/ ExhaustedRefusal \/ Succeeded
    \/ DeliverChunk \/ DeliverEnd
    \/ SkipSave \/ SaveOk \/ SaveFail

Spec == Init /\ [][Next]_vars

(***************************************************************************)
(* The pure functions called on their own: detectRefusal on any text and   *)
(* token count, detectConversationLanguage on any message, prior history   *)
(* and refusal text.                                                       *)
(***************************************************************************)
\* texts of at most MaxSampleLen phrases
Samples == UNION {[1..n -> SamplePhrases] : n \in 0..MaxSampleLen}

\* user messages of one to MaxSampleLen phrases
FunctionMessages ==
    {Turn("user", "new", t) : t \in UNION {[1..n -> UserPhrases] : n \in 1..MaxSampleLen}}

\* previousMessages: nothing, or one exchange
PriorHistories ==
    {<<>>} \cup {<<Turn("user", "prior", <<u>>), Turn("assistant", "prior", <<a>>)>> :
                    u \in UserPhrases, a \in {"word", "arabic"}}

\* refusalText: absent (or empty), or a refusal
RefusalTexts == {<<>>, <<"refuse_en">>, <<"refuse_fr">>, <<"refuse_es">>}

InitFunctions ==
    /\ handler \in {"part_013", "route"}
    /\ handler = "route" => pc = "phase2"
    /\ store = <<>>
    /\ pc \in {"detectRefusal", "detectConversationLanguage", "detectTargetLanguage", "phase2"}
    /\ IF pc = "detectRefusal"
       THEN /\ bufferedText \in Samples
            /\ tokenCount \in 0..MaxTokenCount
            /\ req = [message |-> Turn("user", "new", <<"plain_en">>), images |-> 0,
                      historyEnabled |-> TRUE, id |-> "chat1"]
            /\ previousMessages = <<>>
       ELSE /\ IF pc = "detectConversationLanguage"
               THEN bufferedText \in RefusalTexts
               ELSE bufferedText = <<>>
            /\ tokenCount = 0
            /\ req \in [message : FunctionMessages, images : {0}, historyEnabled : {TRUE},
                         id : {"chat1"}]
            /\ previousMessages \in PriorHistories
    /\ allMessages = <<>>
    /\ messagesForRetry = <<>>
    /\ attempt = 0
    /\ firstRefusalText = NoText
    /\ out = <<>>
    /\ st = "idle"
    /\ firstOutput = <<>>
    /\ detection = NoDetection
    /\ fullText = <<>>
    /\ pos = 0
    /\ response = NoResponse
    /\ delivered = <<>>
    /\ saveCalls = <<>>
    /\ calls = 0
    /\ detections = <<>>
    /\ language = NULL
    /\ targetLanguage = NULL
    /\ OcrIdle
    /\ lateLoad = "none"
    /\ readFailed = [n \in Attempts |-> FALSE]
    /\ path = "none"
    /\ SaveIdle
    /\ ClientIdle

\* detection = detectRefusal(bufferedText, tokenCount)
CallDetectRefusal ==
    /\ pc = "detectRefusal"
    /\ detection' = detectRefusal(bufferedText, tokenCount)
    /\ pc' = "classified"
    /\ UNCHANGED <<handler, req, store, previousMessages, allMessages, messagesForRetry,
                   attempt, firstRefusalText, out, st, firstOutput, bufferedText,
                   tokenCount, fullText, pos, response, delivered, saveCalls, calls,
                   detections, language, targetLanguage, backend, images, imageIndex,
                   results, errors, ocrResult, failedSeen, resultData, checks, lateLoad,
                   readFailed, path, redis, saving, setOrder, chats, currentChatId,
                   currentMessages, isLoadingMessages, localStorage, inflight>>

\* language = detectConversationLanguage(message, previousMessages, refusalText)
CallDetectConversationLanguage ==
    /\ pc = "detectConversationLanguage"
    /\ language' = detectConversationLanguage(req.message, previousMessages, bufferedText)
    /\ pc' = "detected"
    /\ UNCHANGED <<handler, req, store, previousMessages, allMessages, messagesForRetry,
                   attempt, firstRefusalText, out, st, firstOutput, bufferedText,
                   tokenCount, detection, fullText, pos, response, delivered, saveCalls,
                   calls, detections, targetLanguage, backend, images, imageIndex, results,
                   errors, ocrResult, failedSeen, resultData, checks, lateLoad, readFailed,
                   path, redis, saving, setOrder, chats, currentChatId, currentMessages,
                   isLoadingMessages, localStorage, inflight>>

\* targetLanguage = detectTargetLanguage(message, previousMessages)
CallDetectTargetLanguage ==
    /\ pc = "detectTargetLanguage"
    /\ targetLanguage' = detectTargetLanguage(req.message, previousMessages)
    /\ pc' = "targeted"
    /\ UNCHANGED <<handler, req, store, previousMessages, allMessages, messagesForRetry,
                   attempt, firstRefusalText, out, st, firstOutput, bufferedText,
                   tokenCount, detection, fullText, pos, response, delivered, saveCalls,
                   calls, detections, language, backend, images, imageIndex, results,
                   errors, ocrResult, failedSeen, resultData, checks, lateLoad, readFailed,
                   path, redis, saving, setOrder, chats, currentChatId, currentMessages,
                   isLoadingMessages, localStorage, inflight>>

\* phase 2 of the pipeline on its own
ResolveTargetLanguage ==
    /\ pc = "phase2"
    /\ targetLanguage' = Phase2Target(handler, req.message, previousMessages)
    /\ pc' = "resolved"
    /\ UNCHANGED <<handler, req, store, previousMessages, allMessages, messagesForRetry,
                   attempt, firstRefusalText, out, st, firstOutput, bufferedText,
                   tokenCount, detection, fullText, pos, response, delivered, saveCalls,
                   calls, detections, language, backend, images, imageIndex, results,
                   errors, ocrResult, failedSeen, resultData, checks, lateLoad, readFailed,
                   path, redis, saving, setOrder, chats, currentChatId, currentMessages,
                   isLoadingMessages, localStorage, inflight>>

NextFunctions ==
    \/ CallDetectRefusal
    \/ CallDetectConversationLanguage
    \/ CallDetectTargetLanguage
    \/ ResolveTargetLanguage

SpecFunctions == InitFunctions /\ [][NextFunctions]_vars

(***************************************************************************)
(* The batch OCR operation on its own: processMultipleImagesOCR of the     *)
(* DataLab backend (sequential) and of the GPT-4o backend (Promise.all),   *)
(* and extractTextFromMultipleFiles of the Mistral backend.  An input is   *)
(* given by what processing it comes to: a result of some confidence, a    *)
(* failure, or (Mistral only) an unsupported media type.                   *)
(***************************************************************************)
Confidences == {"low", "medium", "high"}

Outcomes == Confidences \cup {"fail", "unsupported"}

OcrBackends == {"datalab", "openai", "mistral"}

Batches == UNION {[1..n -> Outcomes] : n \in 0..MaxImages}

\* the request of the handler plays no part
RequestIdle ==
    /\ handler = "route"
    /\ req = [message |-> Turn("user", "new", <<"plain_en">>), images |-> 1,
              historyEnabled |-> TRUE, id |-> "chat1"]
    /\ store = <<>>
    /\ previousMessages = <<>>
    /\ allMessages = <<>>
    /\ messagesForRetry = <<>>
    /\ firstRefusalText = NoText
    /\ out = <<>>
    /\ st = "idle"
    /\ firstOutput = <<>>
    /\ bufferedText = <<>>
    /\ tokenCount = 0
    /\ detection = NoDetection
    /\ fullText = <<>>
    /\ pos = 0
    /\ response = NoResponse
    /\ delivered = <<>>
    /\ saveCalls = <<>>
    /\ calls = 0
    /\ detections = <<>>
    /\ language = NULL
    /\ targetLanguage = NULL
    /\ lateLoad = "none"
    /\ readFailed = [n \in Attempts |-> FALSE]
    /\ path = "none"

InitOcr ==
    /\ RequestIdle
    /\ attempt = 0
    /\ pc = "batch"
    /\ backend \in OcrBackends
    /\ images \in Batches
    \* only the Mistral batch looks at the media type
    /\ backend # "mistral" => \A k \in 1..Len(images) : images[k] # "unsupported"
    /\ imageIndex = 0
    /\ results = <<>>
    /\ errors = <<>>
    /\ ocrResult = NoOcrResult
    /\ failedSeen = FALSE
    /\ resultData = NoData
    /\ checks = 0
    /\ SaveIdle
    /\ ClientIdle

\* variant: a failed input leaves an (empty, low-confidence) result behind
AggregatedWithFailures(res, k, outcome) ==
    Append(res, [source |-> k,
                 confidence |-> IF outcome \in Confidences THEN outcome ELSE "low"])

\* results.push(result) in the try, nothing in the catch (DataLab);
\* .catch(() => null) and the filter of the nulls (GPT-4o)
Aggregated(res, k, outcome) ==
    IF outcome \in Confidences
    THEN Append(res, [source |-> k, confidence |-> outcome])
    ELSE res

\* the results of the first k inputs, in input order
RECURSIVE AggregatedUpTo(_, _)
AggregatedUpTo(batch, k) ==
    IF k = 0 THEN <<>>
    ELSE Aggregated(AggregatedUpTo(batch, k - 1), k, batch[k])

\* the inputs among the first k whose processing failed
RECURSIVE FailedUpTo(_, _)
FailedUpTo(batch, k) ==
    IF k = 0 THEN <<>>
    ELSE IF batch[k] \in Confidences THEN FailedUpTo(batch, k - 1)
    ELSE Append(FailedUpTo(batch, k - 1), k)

\* variant: 'high' as soon as some result is 'high'
overallConfidenceSomeHigh(res) ==
    IF \E k \in 1..Len(res) : res[k].confidence = "high" THEN "high"
    ELSE IF \E k \in 1..Len(res) : res[k].confidence = "low" THEN "low"
    ELSE "medium"

\* results.every(high) ? 'high' : results.some(low) ? 'low' : 'medium'
overallConfidence(res) ==
    IF \A k \in 1..Len(res) : res[k].confidence = "high" THEN "high"
    ELSE IF \E k \in 1..Len(res) : res[k].confidence = "low" THEN "low"
    ELSE "medium"

\* variant: the batch fails as soon as one input failed
BatchFailsOnAnyFailure(res, errs) == errs # <<>> \/ res = <<>>

\* results.length === 0
BatchFails(res, errs) == res = <<>>

\* throw new Error('All OCR attempts failed'), or the combined OCRResult: one
\* document per aggregated result, in the order of results
CombinedResult(res, errs) ==
    IF BatchFails(res, errs)
    THEN [kind |-> "error"]
    ELSE [kind |-> "result",
          documents |-> [k \in 1..Len(res) |->
                            [source |-> res[k].source, placeholder |-> FALSE]],
          confidence |-> overallConfidence(res)]

\* DataLab: one iteration of the for loop; the last one runs on to the return
ProcessNextImage ==
    /\ pc = "batch"
    /\ backend = "datalab"
    /\ imageIndex < Len(images)
    /\ imageIndex' = imageIndex + 1
    /\ results' = Aggregated(results, imageIndex', images[imageIndex'])
    /\ errors' = IF images[imageIndex'] \in Confidences THEN errors
                 ELSE Append(errors, imageIndex')
    /\ IF imageIndex' = Len(images)
       THEN /\ ocrResult' = CombinedResult(results', errors')
            /\ pc' = "batch_done"
       ELSE UNCHANGED <<ocrResult, pc>>
    /\ UNCHANGED <<handler, req, store, previousMessages, allMessages, messagesForRetry,
                   attempt, firstRefusalText, out, st, firstOutput, bufferedText,
                   tokenCount, detection, fullText, pos, response, delivered, saveCalls,
                   calls, detections, language, targetLanguage, backend, images,
                   failedSeen, resultData, checks, lateLoad, readFailed, path, redis,
                   saving, setOrder, chats, currentChatId, currentMessages,
                   isLoadingMessages, localStorage, inflight>>

\* DataLab: the batch is empty and the loop body never runs
ProcessNoImage ==
    /\ pc = "batch"
    /\ backend = "datalab"
    /\ images = <<>>
    /\ ocrResult' = CombinedResult(results, errors)
    /\ pc' = "batch_done"
    /\ UNCHANGED <<handler, req, store, previousMessages, allMessages, messagesForRetry,
                   attempt, firstRefusalText, out, st, firstOutput, bufferedText,
                   tokenCount, detection, fullText, pos, response, delivered, saveCalls,
                   calls, detections, language, targetLanguage, backend, images,
                   imageIndex, results, errors, failedSeen, resultData, checks, lateLoad,
                   readFailed, path, redis, saving, setOrder, chats, currentChatId,
                   currentMessages, isLoadingMessages, localStorage, inflight>>

\* GPT-4o: Promise.all over the inputs, each with its own catch
ProcessAllImages ==
    /\ pc = "batch"
    /\ backend = "openai"
    /\ imageIndex' = Len(images)
    /\ results' = AggregatedUpTo(images, Len(images))
    /\ errors' = FailedUpTo(images, Len(images))
    /\ ocrResult' = CombinedResult(results', errors')
    /\ pc' = "batch_done"
    /\ UNCHANGED <<handler, req, store, previousMessages, allMessages, messagesForRetry,
                   attempt, firstRefusalText, out, st, firstOutput, bufferedText,
                   tokenCount, detection, fullText, pos, response, delivered, saveCalls,
                   calls, detections, language, targetLanguage, backend, images,
                   failedSeen, resultData, checks, lateLoad, readFailed, path, redis,
                   saving, setOrder, chats, currentChatId, currentMessages,
                   isLoadingMessages, localStorage, inflight>>

\* the document the Mistral batch makes of input k: its text under a header,
\* an '[OCR Error]' document if its processing threw, nothing (null, filtered
\* out) if its media type is unsupported
MistralDocuments(batch, k) ==
    IF batch[k] = "unsupported" THEN <<>>
    ELSE <<[source |-> k, placeholder |-> batch[k] = "fail"]>>

RECURSIVE MistralCombined(_, _)
MistralCombined(batch, k) ==
    IF k = 0 THEN <<>>
    ELSE MistralCombined(batch, k - 1) \o MistralDocuments(batch, k)

\* Mistral: Promise.all over the files, the combined text is returned
ExtractTextFromMultipleFiles ==
    /\ pc = "batch"
    /\ backend = "mistral"
    /\ imageIndex' = Len(images)
    /\ ocrResult' = [kind |-> "result", documents |-> MistralCombined(images, Len(images)),
                     confidence |-> NULL]
    /\ pc' = "batch_done"
    /\ UNCHANGED <<handler, req, store, previousMessages, allMessages, messagesForRetry,
                   attempt, firstRefusalText, out, st, firstOutput, bufferedText,
                   tokenCount, detection, fullText, pos, response, delivered, saveCalls,
                   calls, detections, language, targetLanguage, backend, images, results,
                   errors, failedSeen, resultData, checks, lateLoad, readFailed, path,
                   redis, saving, setOrder, chats, currentChatId, currentMessages,
                   isLoadingMessages, localStorage, inflight>>

NextOcr ==
    \/ ProcessNextImage
    \/ ProcessNoImage
    \/ ProcessAllImages
    \/ ExtractTextFromMultipleFiles

SpecOcr == InitOcr /\ [][NextOcr]_vars

(***************************************************************************)
(* processImageOCR of the DataLab backend on its own: the job is           *)
(* submitted, pollForResults checks its status until it is complete, and   *)
(* the pages of the response are turned into markdown.  A page is given by *)
(* its text lines: "nolines" (text_lines absent or empty), "blank" (lines  *)
(* whose text is empty or white space) or "text".  Waiting between checks  *)
(* takes time and changes nothing else.                                    *)
(***************************************************************************)
PageKinds == {"nolines", "blank", "text"}

PageLists == UNION {[1..n -> PageKinds] : n \in 0..MaxPages}

\* what one page adds to extractedMarkdown: nothing without lines, else the
\* joined lines, after a '--- Page n ---' separator if there are several pages
PageMarkdown(pages, k) ==
    IF pages[k] = "nolines" THEN <<>>
    ELSE IF Len(pages) > 1 THEN <<"separator", pages[k]>>
    ELSE <<pages[k]>>

RECURSIVE ExtractedMarkdown(_, _)
ExtractedMarkdown(pages, k) ==
    IF k = 0 THEN <<>>
    ELSE ExtractedMarkdown(pages, k - 1) \o PageMarkdown(pages, k)

\* !extractedMarkdown.trim()
TrimmedEmpty(markdown) == \A k \in 1..Len(markdown) : markdown[k] = "blank"

\* the catch of processImageOCR rethrows every error
ImageError(cause) == [kind |-> "error", cause |-> cause]

\* processImageOCR after pollForResults has returned the response
ImageResult(pages, grade) ==
    IF pages = <<>> THEN ImageError("no pages")
    ELSE IF TrimmedEmpty(ExtractedMarkdown(pages, Len(pages))) THEN ImageError("empty text")
    ELSE [kind |-> "result", markdown |-> ExtractedMarkdown(pages, Len(pages)),
          pages |-> Len(pages), confidence |-> grade]

InitPoll ==
    /\ RequestIdle
    /\ attempt = 0
    /\ pc = "submit"
    /\ backend = "datalab"
    /\ images = <<>>
    /\ imageIndex = 0
    /\ results = <<>>
    /\ errors = <<>>
    /\ ocrResult = NoOcrResult
    /\ failedSeen = FALSE
    /\ resultData = NoData
    /\ checks = 0
    /\ SaveIdle
    /\ ClientIdle

\* the API key is set and the submission is accepted
SubmitOk ==
    /\ pc = "submit"
    /\ pc' = "poll"
    /\ UNCHANGED <<handler, req, store, previousMessages, allMessages, messagesForRetry,
                   attempt, firstRefusalText, out, st, firstOutput, bufferedText,
                   tokenCount, detection, fullText, pos, response, delivered, saveCalls,
                   calls, detections, language, targetLanguage, backend, images,
                   imageIndex, results, errors, ocrResult, failedSeen, resultData, checks,
                   lateLoad, readFailed, path, redis, saving, setOrder, chats,
                   currentChatId, currentMessages, isLoadingMessages, localStorage,
                   inflight>>

\* no API key, the submission is rejected, or it reports no success
SubmitFail ==
    /\ pc = "submit"
    /\ ocrResult' = ImageError("submit")
    /\ pc' = "image_done"
    /\ UNCHANGED <<handler, req, store, previousMessages, allMessages, messagesForRetry,
                   attempt, firstRefusalText, out, st, firstOutput, bufferedText,
                   tokenCount, detection, fullText, pos, response, delivered, saveCalls,
                   calls, detections, language, targetLanguage, backend, images,
                   imageIndex, results, errors, failedSeen, resultData, checks, lateLoad,
                   readFailed, path, redis, saving, setOrder, chats, currentChatId,
                   currentMessages, isLoadingMessages, localStorage, inflight>>

\* variant: the loop runs while attempt <= maxAttempts
MayPollInclusive(n) == n <= maxAttempts

\* while (attempt < maxAttempts)
MayPoll(n) == n < maxAttempts

\* the catch of the loop body: if (attempt < maxAttempts) wait and continue
RetriesAfter(n) == n < maxAttempts

\* status 'processing': wait, then the loop condition is tested again; when
\* it fails the timeout error is thrown
PollProcessing ==
    /\ pc = "poll"
    /\ MayPoll(attempt)
    /\ attempt' = attempt + 1
    /\ checks' = checks + 1
    /\ IF MayPoll(attempt')
       THEN UNCHANGED <<pc, ocrResult>>
       ELSE /\ ocrResult' = ImageError("timeout")
            /\ pc' = "image_done"
    /\ UNCHANGED <<handler, req, store, previousMessages, allMessages, messagesForRetry,
                   firstRefusalText, out, st, firstOutput, bufferedText, tokenCount,
                   detection, fullText, pos, response, delivered, saveCalls, calls,
                   detections, language, targetLanguage, backend, images, imageIndex,
                   results, errors, failedSeen, resultData, lateLoad, readFailed, path,
                   redis, saving, setOrder, chats, currentChatId, currentMessages,
                   isLoadingMessages, localStorage, inflight>>

\* status 'failed': the error thrown in the try is caught by the loop's catch
PollFailed ==
    /\ pc = "poll"
    /\ MayPoll(attempt)
    /\ attempt' = attempt + 1
    /\ checks' = checks + 1
    /\ failedSeen' = TRUE
    /\ IF RetriesAfter(attempt')
       THEN UNCHANGED <<pc, ocrResult>>
       ELSE /\ ocrResult' = ImageError("failed")
            /\ pc' = "image_done"
    /\ UNCHANGED <<handler, req, store, previousMessages, allMessages, messagesForRetry,
                   firstRefusalText, out, st, firstOutput, bufferedText, tokenCount,
                   detection, fullText, pos, response, delivered, saveCalls, calls,
                   detections, language, targetLanguage, backend, images, imageIndex,
                   results, errors, resultData, lateLoad, readFailed, path, redis, saving,
                   setOrder, chats, currentChatId, currentMessages, isLoadingMessages,
                   localStorage, inflight>>

\* the fetch throws or the response is not ok
PollError ==
    /\ pc = "poll"
    /\ MayPoll(attempt)
    /\ attempt' = attempt + 1
    /\ checks' = checks + 1
    /\ IF RetriesAfter(attempt')
       THEN UNCHANGED <<pc, ocrResult>>
       ELSE /\ ocrResult' = ImageError("status check")
            /\ pc' = "image_done"
    /\ UNCHANGED <<handler, req, store, previousMessages, allMessages, messagesForRetry,
                   firstRefusalText, out, st, firstOutput, bufferedText, tokenCount,
                   detection, fullText, pos, response, delivered, saveCalls, calls,
                   detections, language, targetLanguage, backend, images, imageIndex,
                   results, errors, failedSeen, resultData, lateLoad, readFailed, path,
                   redis, saving, setOrder, chats, currentChatId, currentMessages,
                   isLoadingMessages, localStorage, inflight>>

\* status 'complete': pollForResults returns the response and processImageOCR
\* builds its result; grade is what calculateOCRConfidence makes of the lines
PollComplete ==
    /\ pc = "poll"
    /\ MayPoll(attempt)
    /\ attempt' = attempt + 1
    /\ checks' = checks + 1
    /\ \E pages \in PageLists, grade \in Confidences :
          /\ resultData' = pages
          /\ ocrResult' = ImageResult(pages, grade)
    /\ pc' = "image_done"
    /\ UNCHANGED <<handler, req, store, previousMessages, allMessages, messagesForRetry,
                   firstRefusalText, out, st, firstOutput, bufferedText, tokenCount,
                   detection, fullText, pos, response, delivered, saveCalls, calls,
                   detections, language, targetLanguage, backend, images, imageIndex,
                   results, errors, failedSeen, lateLoad, readFailed, path, redis, saving,
                   setOrder, chats, currentChatId, currentMessages, isLoadingMessages,
                   localStorage, inflight>>

NextPoll ==
    \/ SubmitOk
    \/ SubmitFail
    \/ PollProcessing
    \/ PollFailed
    \/ PollError
    \/ PollComplete

\* every await of the operation settles: a timer fires, a fetch answers or fails
SpecPoll == InitPoll /\ [][NextPoll]_vars /\ WF_vars(NextPoll)

(***************************************************************************)
(* Confidence grading of one OCR result: calculateOCRConfidence of the     *)
(* DataLab adapter (markdown and the text lines of the response) and of    *)
(* the OpenAI adapter (markdown only).  A markdown text is what the        *)
(* function measures of it: its trimmed length, the number of characters   *)
(* outside the ordinary class, the number of words and the markers in it.  *)
(***************************************************************************)
\* trimmed lengths on both sides of every threshold of the function
TextLengths == {0, 9, 10, 29, 30, 31, 100, 101, 200, 201}

\* word counts on both sides of every threshold; ''.split(/\s+/) has one element
WordCounts == {1, 2, 3, 5, 6, 20, 21}

\* "dash" is a text whose only marker is '-', "heading" one with '#', '|' or '**'
Markers == {"none", "dash", "heading"}

\* counts of characters matched by /[^a-zA-Z0-9\s\n.,;:!?'"()\-]/g around 0.4
SpecialCounts(length) ==
    {0, 1, (4 * length) \div 10, (4 * length) \div 10 + 1} \cap 0..length

Markdowns ==
    {m \in [length : TextLengths, special : UNION {SpecialCounts(l) : l \in TextLengths},
            words : WordCounts, marker : Markers] :
        /\ m.special \in SpecialCounts(m.length)
        /\ 2 * m.words <= m.length + 2
        /\ m.marker = "heading" => m.special >= 1
        /\ m.marker = "dash" => m.length >= 1}

\* a text line of the response: <<>> without a confidence, <<c>> with c percent
TextLine == {<<>>, <<60>>, <<80>>, <<90>>}

RECURSIVE BoundedLines(_)
BoundedLines(n) ==
    IF n = 0 THEN {<<>>}
    ELSE BoundedLines(n - 1) \cup
         {Append(l, t) : l \in {x \in BoundedLines(n - 1) : Len(x) = n - 1}, t \in TextLine}

TextLines == BoundedLines(MaxLines)

\* (line.confidence || 0), in percent
LineConfidence(line) == IF line = <<>> THEN 0 ELSE line[1]

RECURSIVE SumConfidence(_)
SumConfidence(textLines) ==
    IF textLines = <<>> THEN 0
    ELSE LineConfidence(Head(textLines)) + SumConfidence(Tail(textLines))

hasStructure(adapter, m) ==
    IF adapter = "datalab" THEN m.marker \in {"dash", "heading"} ELSE m.marker = "heading"

\* textLength < 10
TooShort(m) == m.length < 10

\* specialCharRatio > 0.4; a division by a zero length gives NaN, which is not above
Garbled(m) == m.length > 0 /\ 10 * m.special > 4 * m.length

\* (textLength > 100 && hasStructure) || (textLength > 200 && wordCount > 20)
Substantial(adapter, m) ==
    \/ m.length > 100 /\ hasStructure(adapter, m)
    \/ m.length > 200 /\ m.words > 20

calculateOCRConfidence(adapter, m, textLines) ==
    IF adapter = "datalab" /\ Len(textLines) > 0
    THEN IF SumConfidence(textLines) > 85 * Len(textLines) THEN "high"
         ELSE IF SumConfidence(textLines) > 70 * Len(textLines) THEN "medium"
         ELSE "low"
    ELSE IF TooShort(m) THEN "low"
    ELSE IF Garbled(m) THEN "low"
    ELSE IF Substantial(adapter, m) THEN "high"
    ELSE IF m.length > 30 /\ m.words > 5 THEN "medium"
    ELSE IF adapter = "openai" /\ (m.length < 30 \/ m.words < 3) THEN "low"
    ELSE "medium"

InitConfidence ==
    /\ RequestIdle
    /\ attempt = 0
    /\ pc = "grade"
    /\ backend \in {"datalab", "openai"}
    /\ images = <<>>
    /\ imageIndex = 0
    /\ results = <<>>
    /\ errors = <<>>
    /\ ocrResult = NoOcrResult
    /\ failedSeen = FALSE
    /\ resultData \in [markdown : Markdowns, textLines : TextLines]
    \* the OpenAI adapter has no text lines to pass
    /\ backend = "openai" => resultData.textLines = <<>>
    /\ checks = 0
    /\ SaveIdle
    /\ ClientIdle

\* confidence = calculateOCRConfidence(extractedMarkdown, allTextLines)
GradeResult ==
    /\ pc = "grade"
    /\ ocrResult' = [kind |-> "graded",
                     confidence |-> calculateOCRConfidence(backend, resultData.markdown,
                                                           resultData.textLines)]
    /\ pc' = "graded"
    /\ UNCHANGED <<handler, req, store, previousMessages, allMessages, messagesForRetry,
                   attempt, firstRefusalText, out, st, firstOutput, bufferedText,
                   tokenCount, detection, fullText, pos, response, delivered, saveCalls,
                   calls, detections, language, targetLanguage, backend, images,
                   imageIndex, results, errors, failedSeen, resultData, checks, lateLoad,
                   readFailed, path, redis, saving, setOrder, chats, currentChatId,
                   currentMessages, isLoadingMessages, localStorage, inflight>>

NextConfidence ==
    \/ GradeResult

SpecConfidence == InitConfidence /\ [][NextConfidence]_vars

(***************************************************************************)
(* saveChat of chat-store.ts, called by several requests for the same      *)
(* conversation id at once.  Each call awaits redis.get, builds the record *)
(* and awaits redis.set; the calls interleave at the two awaits.  The      *)
(* timestamps of the record are left out.                                  *)
(***************************************************************************)
Savers == 1..MaxSavers

\* the turns a request adds to the history it loaded
NewTurns(i) ==
    <<Turn("user", "new", <<"plain_en">>),
      Turn("assistant", "response", IF i = 1 THEN <<"word">> ELSE <<"word", "word">>)>>

\* allMessages of a request: the history it loaded (none, when the load
\* timed out or the chat was new) and its own turns
SavedLists(i) == {NewTurns(i), StoredTurns \o NewTurns(i)}

StoredChats == {NoChat, [exists |-> TRUE, title |-> <<"plain_en">>, messages |-> StoredTurns]}

RECURSIVE UserTexts(_)
UserTexts(messages) ==
    IF messages = <<>> THEN <<>>
    ELSE (IF Head(messages).role = "user" THEN <<Head(messages).text>> ELSE <<>>)
         \o UserTexts(Tail(messages))

\* the text of the first user message, or 'New Chat'
extractTitle(messages) ==
    IF UserTexts(messages) = <<>> THEN <<"New Chat">> ELSE Head(UserTexts(messages))

\* the record saveChat writes: the one it read, or a new one, with its messages
UpdatedChatMerging(existing, messages) ==
    IF existing.exists
    THEN [existing EXCEPT !.messages = existing.messages \o messages]
    ELSE [exists |-> TRUE, title |-> extractTitle(messages), messages |-> messages]

UpdatedChat(existing, messages) ==
    IF existing.exists
    THEN [existing EXCEPT !.messages = messages]
    ELSE [exists |-> TRUE, title |-> extractTitle(messages), messages |-> messages]

InitSave ==
    /\ RequestIdle
    /\ attempt = 0
    /\ pc = "saveChat"
    /\ OcrIdle
    /\ ClientIdle
    /\ redis \in StoredChats
    /\ saving \in {f \in [Savers -> [pc : {"get"}, existing : {NoChat},
                                     messages : UNION {SavedLists(i) : i \in Savers}]] :
                      \A i \in Savers : f[i].messages \in SavedLists(i)}
    /\ setOrder = <<>>

\* const existing = await redis.get(getChatKey(chatId))
SaveGet(i) ==
    /\ saving[i].pc = "get"
    /\ saving' = [saving EXCEPT ![i].pc = "set", ![i].existing = redis]
    /\ UNCHANGED <<handler, req, store, pc, previousMessages, allMessages,
                   messagesForRetry, attempt, firstRefusalText, out, st, firstOutput,
                   bufferedText, tokenCount, detection, fullText, pos, response, delivered,
                   saveCalls, calls, detections, language, targetLanguage, backend, images,
                   imageIndex, results, errors, ocrResult, failedSeen, resultData, checks,
                   lateLoad, readFailed, path, redis, setOrder, chats, currentChatId,
                   currentMessages, isLoadingMessages, localStorage, inflight>>

\* redis.get rejects: the catch logs and rethrows
SaveGetFail(i) ==
    /\ saving[i].pc = "get"
    /\ saving' = [saving EXCEPT ![i].pc = "failed"]
    /\ UNCHANGED <<handler, req, store, pc, previousMessages, allMessages,
                   messagesForRetry, attempt, firstRefusalText, out, st, firstOutput,
                   bufferedText, tokenCount, detection, fullText, pos, response, delivered,
                   saveCalls, calls, detections, language, targetLanguage, backend, images,
                   imageIndex, results, errors, ocrResult, failedSeen, resultData, checks,
                   lateLoad, readFailed, path, redis, setOrder, chats, currentChatId,
                   currentMessages, isLoadingMessages, localStorage, inflight>>

\* chat.messages = messages; await redis.set(getChatKey(chatId), JSON.stringify(chat))
SaveSet(i) ==
    /\ saving[i].pc = "set"
    /\ redis' = UpdatedChat(saving[i].existing, saving[i].messages)
    /\ setOrder' = Append(setOrder, i)
    /\ saving' = [saving EXCEPT ![i].pc = "done"]
    /\ UNCHANGED <<handler, req, store, pc, previousMessages, allMessages,
                   messagesForRetry, attempt, firstRefusalText, out, st, firstOutput,
                   bufferedText, tokenCount, detection, fullText, pos, response, delivered,
                   saveCalls, calls, detections, language, targetLanguage, backend, images,
                   imageIndex, results, errors, ocrResult, failedSeen, resultData, checks,
                   lateLoad, readFailed, path, chats, currentChatId, currentMessages,
                   isLoadingMessages, localStorage, inflight>>

\* redis.set rejects: the catch logs and rethrows, nothing was written
SaveSetFail(i) ==
    /\ saving[i].pc = "set"
    /\ saving' = [saving EXCEPT ![i].pc = "failed"]
    /\ UNCHANGED <<handler, req, store, pc, previousMessages, allMessages,
                   messagesForRetry, attempt, firstRefusalText, out, st, firstOutput,
                   bufferedText, tokenCount, detection, fullText, pos, response, delivered,
                   saveCalls, calls, detections, language, targetLanguage, backend, images,
                   imageIndex, results, errors, ocrResult, failedSeen, resultData, checks,
                   lateLoad, readFailed, path, redis, setOrder, chats, currentChatId,
                   currentMessages, isLoadingMessages, localStorage, inflight>>

NextSave ==
    \/ \E i \in Savers : SaveGet(i)
    \/ \E i \in Savers : SaveGetFail(i)
    \/ \E i \in Savers : SaveSet(i)
    \/ \E i \in Savers : SaveSetFail(i)

SpecSave == InitSave /\ [][NextSave]_vars

(***************************************************************************)
(* bufferAndCheckRefusal on its own.  The backend sends one text (fullText) *)
(* several times, each time split into chunks in some way; a chunk is a    *)
(* run of consecutive phrases of the text.  The streams end without a read *)
(* error (the failing read is BufferError of the handler).                 *)
(***************************************************************************)
ResponseTexts == UNION {[1..n -> BackendPhrases] : n \in 1..MaxTextLen}

\* every way of cutting a text into consecutive non-empty chunks
RECURSIVE Chunkings(_)
Chunkings(text) ==
    IF text = <<>> THEN {<<>>}
    ELSE UNION {{<<SubSeq(text, 1, k)>> \o rest :
                    rest \in Chunkings(SubSeq(text, k + 1, Len(text)))} : k \in 1..Len(text)}

\* the for-await loop: bufferedText after reading the chunks, stopping at the budget
RECURSIVE BufferedOf(_, _)
BufferedOf(chunks, buffered) ==
    IF chunks = <<>> THEN buffered
    ELSE IF BudgetReached(estimateTokenCount(buffered \o Head(chunks)))
    THEN buffered \o Head(chunks)
    ELSE BufferedOf(Tail(chunks), buffered \o Head(chunks))

bufferAndCheckRefusal(chunks) ==
    detectRefusal(BufferedOf(chunks, <<>>), estimateTokenCount(BufferedOf(chunks, <<>>)))

InitBuffer ==
    /\ handler = "part_013"
    /\ req = [message |-> Turn("user", "new", <<"plain_en">>), images |-> 0,
              historyEnabled |-> TRUE, id |-> "chat1"]
    /\ store = <<>>
    /\ pc = "bufferAndCheckRefusal"
    /\ previousMessages = <<>>
    /\ allMessages = <<>>
    /\ messagesForRetry = <<>>
    /\ attempt = 0
    /\ firstRefusalText = NoText
    /\ out = <<>>
    /\ st = "idle"
    /\ firstOutput = <<>>
    /\ bufferedText = <<>>
    /\ tokenCount = 0
    /\ detection = NoDetection
    /\ fullText \in ResponseTexts
    /\ pos = 0
    /\ response = NoResponse
    /\ delivered = <<>>
    /\ saveCalls = <<>>
    /\ calls = 0
    /\ detections = <<>>
    /\ language = NULL
    /\ targetLanguage = NULL
    /\ OcrIdle
    /\ lateLoad = "none"
    /\ readFailed = [n \in Attempts |-> FALSE]
    /\ path = "none"
    /\ SaveIdle
    /\ ClientIdle

\* one more stream of the same text: detection = await bufferAndCheckRefusal(result, 150)
BufferStream ==
    /\ pc = "bufferAndCheckRefusal"
    /\ calls < MaxStreams
    /\ \E chunks \in Chunkings(fullText) :
        /\ out' = chunks
        /\ bufferedText' = BufferedOf(chunks, <<>>)
        /\ tokenCount' = estimateTokenCount(BufferedOf(chunks, <<>>))
        /\ detection' = bufferAndCheckRefusal(chunks)
        /\ detections' = Append(detections, bufferAndCheckRefusal(chunks))
    /\ calls' = calls + 1
    /\ UNCHANGED <<handler, req, store, pc, previousMessages, allMessages,
                   messagesForRetry, attempt, firstRefusalText, st, firstOutput, fullText,
                   pos, response, delivered, saveCalls, language, targetLanguage, backend,
                   images, imageIndex, results, errors, ocrResult, failedSeen, resultData,
                   checks, lateLoad, readFailed, path, redis, saving, setOrder, chats,
                   currentChatId, currentMessages, isLoadingMessages, localStorage,
                   inflight>>

NextBuffer ==
    \/ BufferStream

SpecBuffer == InitBuffer /\ [][NextBuffer]_vars

(***************************************************************************)
(* The browser cache of chat-storage (localStorage): the chat list under   *)
(* CHAT_LIST, the sync metadata under LAST_SYNC and the messages of a chat *)
(* under CHAT_PREFIX + id.  Writes to localStorage succeed (no quota       *)
(* error).  The chat with id k was last updated at time k.                 *)
(***************************************************************************)
Chat(k) == [id |-> k, updatedAt |-> k]

\* the messages cached for a chat, and the messages the server holds for it
CachedMessages(k) == <<[chat |-> k, text |-> "cached"]>>

ServerMessages(k) == <<[chat |-> k, text |-> "server"]>>

Without(list, i) == SubSeq(list, 1, i - 1) \o SubSeq(list, i + 1, Len(list))

\* sort((a, b) => new Date(b.updatedAt) - new Date(a.updatedAt)): stable, newest first
RECURSIVE SortNewestFirst(_)
SortNewestFirst(list) ==
    IF list = <<>> THEN <<>>
    ELSE LET i == CHOOSE i \in 1..Len(list) :
                    /\ \A j \in 1..Len(list) : list[j].updatedAt <= list[i].updatedAt
                    /\ \A j \in 1..(i - 1) : list[j].updatedAt < list[i].updatedAt
         IN <<list[i]>> \o SortNewestFirst(Without(list, i))

\* sort((a, b) => new Date(a.updatedAt) - new Date(b.updatedAt)): stable, oldest first
RECURSIVE SortOldestFirst(_)
SortOldestFirst(list) ==
    IF list = <<>> THEN <<>>
    ELSE LET i == CHOOSE i \in 1..Len(list) :
                    /\ \A j \in 1..Len(list) : list[j].updatedAt >= list[i].updatedAt
                    /\ \A j \in 1..(i - 1) : list[j].updatedAt > list[i].updatedAt
         IN <<list[i]>> \o SortOldestFirst(Without(list, i))

\* list.slice(0, n)
Slice(list, n) == SubSeq(list, 1, IF n < Len(list) THEN n ELSE Len(list))

Ids(list) == {list[i].id : i \in 1..Len(list)}

\* list.filter(c => !ids.has(c.id))
RECURSIVE WithoutIds(_, _)
WithoutIds(list, ids) ==
    IF list = <<>> THEN <<>>
    ELSE (IF Head(list).id \in ids THEN <<>> ELSE <<Head(list)>>)
         \o WithoutIds(Tail(list), ids)

getCachedChatList(ls) == SortNewestFirst(ls.chatList)

cacheChatList(ls, list) ==
    [ls EXCEPT !.chatList = Slice(list, MAX_CACHED_CHATS), !.metadata = TRUE]

getCachedChat(ls, chatId) == ls.cached[chatId]

cacheChat(ls, chatId, messages) == [ls EXCEPT !.cached[chatId] = messages]

removeCachedChat(ls, chatId) ==
    [cacheChatList(ls, WithoutIds(getCachedChatList(ls), {chatId}))
        EXCEPT !.cached[chatId] = NoCachedChat]

\* sorted.slice(0, Math.max(sorted.length - MAX_CACHED_CHATS, 5))
ToRemove(sorted) ==
    Slice(sorted, IF Len(sorted) - MAX_CACHED_CHATS > 5 THEN Len(sorted) - MAX_CACHED_CHATS
                  ELSE 5)

cleanupOldChats(ls) ==
    IF ~ls.metadata \/ Len(getCachedChatList(ls)) = 0 THEN ls
    ELSE LET cachedChats == getCachedChatList(ls)
             toRemove == ToRemove(SortOldestFirst(cachedChats))
             removed == [ls EXCEPT !.cached = [k \in ChatIds |->
                                  IF k \in Ids(toRemove) THEN NoCachedChat ELSE ls.cached[k]]]
         IN cacheChatList(removed, WithoutIds(cachedChats, Ids(toRemove)))

(***************************************************************************)
(* cleanupOldChats on its own, over the caches a browser may start with:   *)
(* a chat list of any length (an earlier version of cacheChatList stored   *)
(* the list unbounded), in either order, with or without sync metadata,    *)
(* and messages cached for the oldest chats of the list.                   *)
(***************************************************************************)
NewestFirst(n) == [i \in 1..n |-> Chat(n + 1 - i)]

OldestFirst(n) == [i \in 1..n |-> Chat(i)]

StartingCaches ==
    {[chatList |-> list, metadata |-> m,
      cached |-> [k \in ChatIds |-> IF k <= j THEN CachedMessages(k) ELSE NoCachedChat]] :
        list \in UNION {{NewestFirst(n), OldestFirst(n)} : n \in 0..MaxCachedList},
        m \in BOOLEAN, j \in 0..MaxCachedList}

InitCache ==
    /\ RequestIdle
    /\ attempt = 0
    /\ pc = "cleanupOldChats"
    /\ OcrIdle
    /\ SaveIdle
    /\ chats = <<>>
    /\ currentChatId = NoChatId
    /\ currentMessages = <<>>
    /\ isLoadingMessages = FALSE
    /\ localStorage \in {ls \in StartingCaches :
                            \A k \in ChatIds : ls.cached[k] # NoCachedChat => k \in Ids(ls.chatList)}
    /\ inflight = <<>>

\* cleanupOldChats(); inflight keeps the cache the call found
CleanupOldChats ==
    /\ pc = "cleanupOldChats"
    /\ inflight' = <<[kind |-> "cleanupOldChats", entry |-> localStorage]>>
    /\ localStorage' = cleanupOldChats(localStorage)
    /\ pc' = "cleaned"
    /\ UNCHANGED <<handler, req, store, previousMessages, allMessages, messagesForRetry,
                   attempt, firstRefusalText, out, st, firstOutput, bufferedText,
                   tokenCount, detection, fullText, pos, response, delivered, saveCalls,
                   calls, detections, language, targetLanguage, backend, images,
                   imageIndex, results, errors, ocrResult, failedSeen, resultData, checks,
                   lateLoad, readFailed, path, redis, saving, setOrder, chats,
                   currentChatId, currentMessages, isLoadingMessages>>

NextCache ==
    \/ CleanupOldChats

SpecCache == InitCache /\ [][NextCache]_vars

(***************************************************************************)
(* The client chat store (useChatStore): loadChatsFromCache,               *)
(* loadChatMessages and deleteChat.  A call runs without interruption up   *)
(* to its await of fetch; the answer of the server (or the failure of the  *)
(* fetch) is a later step, so calls overlap.  inflight[c] is the c-th call *)
(* made, with the locals it holds across the await.                        *)
(***************************************************************************)
ClientChats == 1..MaxClientChats

\* zustand state: sorted = [...chats].sort(newest first); set({ chats: sorted })
SetChats(list) == SortNewestFirst(list)

\* the chat lists a browser may show when the calls begin
ClientLists == {SortNewestFirst(OldestFirst(n)) : n \in 0..MaxClientChats}

\* what the cache may hold for a chat: nothing, the server's messages or older ones
CacheStates == {"none", "server", "cached"}

CacheOf(state, k) ==
    CASE state = "server" -> ServerMessages(k)
      [] state = "cached" -> CachedMessages(k)
      [] OTHER -> NoCachedChat

\* the caches of a browser that shows the chat list
ClientCaches(list) ==
    {[chatList |-> list, metadata |-> m,
      cached |-> [k \in ChatIds |-> IF k \in Ids(list) THEN CacheOf(f[k], k)
                                    ELSE NoCachedChat]] :
        m \in BOOLEAN, f \in [ClientChats -> CacheStates]}

InitClient ==
    /\ RequestIdle
    /\ attempt = 0
    /\ pc = "client"
    /\ OcrIdle
    /\ SaveIdle
    /\ chats \in ClientLists
    /\ currentChatId \in {NoChatId} \cup Ids(chats)
    /\ currentMessages \in IF currentChatId = NoChatId THEN {<<>>}
                           ELSE {ServerMessages(currentChatId), CachedMessages(currentChatId)}
    /\ isLoadingMessages = FALSE
    /\ localStorage \in ClientCaches(chats)
    /\ inflight = <<>>

MayCall == Len(inflight) < MaxCalls

\* loadChatsFromCache: cleanupOldChats(); set({ chats: getCachedChatList(), ... })
LoadChatsFromCache ==
    /\ MayCall
    /\ localStorage' = cleanupOldChats(localStorage)
    /\ chats' = getCachedChatList(cleanupOldChats(localStorage))
    /\ inflight' = Append(inflight, [kind |-> "loadChatsFromCache", chatId |-> NoChatId,
                                     pc |-> "done", cachedMessages |-> NoCachedChat,
                                     previousChats |-> <<>>, entry |-> <<>>])
    /\ UNCHANGED <<handler, req, store, pc, previousMessages, allMessages,
                   messagesForRetry, attempt, firstRefusalText, out, st, firstOutput,
                   bufferedText, tokenCount, detection, fullText, pos, response, delivered,
                   saveCalls, calls, detections, language, targetLanguage, backend, images,
                   imageIndex, results, errors, ocrResult, failedSeen, resultData, checks,
                   lateLoad, readFailed, path, redis, saving, setOrder, currentChatId,
                   currentMessages, isLoadingMessages>>

\* loadChatMessages(chatId) up to its await: the cached messages are shown at once
LoadChatMessages(chatId) ==
    /\ MayCall
    /\ IF getCachedChat(localStorage, chatId) # NoCachedChat
       THEN /\ currentChatId' = chatId
            /\ currentMessages' = getCachedChat(localStorage, chatId)
            /\ isLoadingMessages' = FALSE
       ELSE /\ isLoadingMessages' = TRUE
            /\ UNCHANGED <<currentChatId, currentMessages>>
    /\ inflight' = Append(inflight, [kind |-> "loadChatMessages", chatId |-> chatId,
                                     pc |-> "fetch",
                                     cachedMessages |-> getCachedChat(localStorage, chatId),
                                     previousChats |-> <<>>, entry |-> <<>>])
    /\ UNCHANGED <<handler, req, store, pc, previousMessages, allMessages,
                   messagesForRetry, attempt, firstRefusalText, out, st, firstOutput,
                   bufferedText, tokenCount, detection, fullText, pos, response, delivered,
                   saveCalls, calls, detections, language, targetLanguage, backend, images,
                   imageIndex, results, errors, ocrResult, failedSeen, resultData, checks,
                   lateLoad, readFailed, path, redis, saving, setOrder, chats,
                   localStorage>>

\* the server answers the GET: the store is updated if the answer differs from the cache
LoadAnswered(c) ==
    /\ inflight[c].kind = "loadChatMessages"
    /\ inflight[c].pc = "fetch"
    /\ IF ServerMessages(inflight[c].chatId) # inflight[c].cachedMessages
       THEN /\ currentChatId' = inflight[c].chatId
            /\ currentMessages' = ServerMessages(inflight[c].chatId)
            /\ localStorage' = cacheChat(localStorage, inflight[c].chatId,
                                         ServerMessages(inflight[c].chatId))
       ELSE UNCHANGED <<currentChatId, currentMessages, localStorage>>
    /\ isLoadingMessages' = FALSE
    /\ inflight' = [inflight EXCEPT ![c].pc = "done"]
    /\ UNCHANGED <<handler, req, store, pc, previousMessages, allMessages,
                   messagesForRetry, attempt, firstRefusalText, out, st, firstOutput,
                   bufferedText, tokenCount, detection, fullText, pos, response, delivered,
                   saveCalls, calls, detections, language, targetLanguage, backend, images,
                   imageIndex, results, errors, ocrResult, failedSeen, resultData, checks,
                   lateLoad, readFailed, path, redis, saving, setOrder, chats>>

\* the GET fails or answers with an error status: the catch clears the loading flag
LoadFailed(c) ==
    /\ inflight[c].kind = "loadChatMessages"
    /\ inflight[c].pc = "fetch"
    /\ isLoadingMessages' = FALSE
    /\ inflight' = [inflight EXCEPT ![c].pc = "failed"]
    /\ UNCHANGED <<handler, req, store, pc, previousMessages, allMessages,
                   messagesForRetry, attempt, firstRefusalText, out, st, firstOutput,
                   bufferedText, tokenCount, detection, fullText, pos, response, delivered,
                   saveCalls, calls, detections, language, targetLanguage, backend, images,
                   imageIndex, results, errors, ocrResult, failedSeen, resultData, checks,
                   lateLoad, readFailed, path, redis, saving, setOrder, chats,
                   currentChatId, currentMessages, localStorage>>

\* deleteChat(chatId) up to its await: the optimistic removal
DeleteChat(chatId) ==
    /\ MayCall
    /\ chats' = SetChats(WithoutIds(chats, {chatId}))
    /\ localStorage' = removeCachedChat(localStorage, chatId)
    /\ IF currentChatId = chatId
       THEN currentChatId' = NoChatId /\ currentMessages' = <<>>
       ELSE UNCHANGED <<currentChatId, currentMessages>>
    /\ inflight' = Append(inflight, [kind |-> "deleteChat", chatId |-> chatId,
                                     pc |-> "fetch", cachedMessages |-> NoCachedChat,
                                     previousChats |-> chats,
                                     entry |-> <<[chats |-> chats,
                                                  currentChatId |-> currentChatId,
                                                  currentMessages |-> currentMessages]>>])
    /\ UNCHANGED <<handler, req, store, pc, previousMessages, allMessages,
                   messagesForRetry, attempt, firstRefusalText, out, st, firstOutput,
                   bufferedText, tokenCount, detection, fullText, pos, response, delivered,
                   saveCalls, calls, detections, language, targetLanguage, backend, images,
                   imageIndex, results, errors, ocrResult, failedSeen, resultData, checks,
                   lateLoad, readFailed, path, redis, saving, setOrder, isLoadingMessages>>

\* the server answers the DELETE
DeleteAnswered(c) ==
    /\ inflight[c].kind = "deleteChat"
    /\ inflight[c].pc = "fetch"
    /\ inflight' = [inflight EXCEPT ![c].pc = "done"]
    /\ UNCHANGED <<handler, req, store, pc, previousMessages, allMessages,
                   messagesForRetry, attempt, firstRefusalText, out, st, firstOutput,
                   bufferedText, tokenCount, detection, fullText, pos, response, delivered,
                   saveCalls, calls, detections, language, targetLanguage, backend, images,
                   imageIndex, results, errors, ocrResult, failedSeen, resultData, checks,
                   lateLoad, readFailed, path, redis, saving, setOrder, chats,
                   currentChatId, currentMessages, isLoadingMessages, localStorage>>

\* the DELETE fails or answers with an error status: rollback, and the error is rethrown
DeleteFailed(c) ==
    /\ inflight[c].kind = "deleteChat"
    /\ inflight[c].pc = "fetch"
    /\ chats' = SetChats(inflight[c].previousChats)
    /\ localStorage' = cacheChatList(localStorage, inflight[c].previousChats)
    /\ inflight' = [inflight EXCEPT ![c].pc = "thrown"]
    /\ UNCHANGED <<handler, req, store, pc, previousMessages, allMessages,
                   messagesForRetry, attempt, firstRefusalText, out, st, firstOutput,
                   bufferedText, tokenCount, detection, fullText, pos, response, delivered,
                   saveCalls, calls, detections, language, targetLanguage, backend, images,
                   imageIndex, results, errors, ocrResult, failedSeen, resultData, checks,
                   lateLoad, readFailed, path, redis, saving, setOrder, currentChatId,
                   currentMessages, isLoadingMessages>>

NextClient ==
    \/ LoadChatsFromCache
    \/ \E chatId \in ClientChats : LoadChatMessages(chatId)
    \/ \E c \in 1..Len(inflight) : LoadAnswered(c)
    \/ \E c \in 1..Len(inflight) : LoadFailed(c)
    \/ \E chatId \in ClientChats : DeleteChat(chatId)
    \/ \E c \in 1..Len(inflight) : DeleteAnswered(c)
    \/ \E c \in 1..Len(inflight) : DeleteFailed(c)

SpecClient == InitClient /\ [][NextClient]_vars

(***************************************************************************)
(* Properties of the retry loop.                                           *)
(***************************************************************************)
\* every buffered prefix so far was classified as a high-confidence refusal
AllHigh ==
    /\ detections # <<>>
    /\ \A i \in 1..Len(detections) : HighRefusal(detections[i])

\* the handler has returned its Response
Responded == response.type # "none"

\* the loop ended in ExhaustedRefusal
InExhaustedRefusal == Responded /\ HighRefusal(detection)

\* C1: when every attempt's buffered prefix is classified as a high-confidence
\* refusal, the run ends after exactly MAX_RETRIES + 1 backend attempts: it does
\* not respond earlier, and after the third classification nothing but the
\* response follows.
C1_ExactlyThreeAttempts ==
    AllHigh =>
        /\ calls <= MAX_RETRIES + 1
        /\ Responded => calls = MAX_RETRIES + 1 /\ Len(detections) = MAX_RETRIES + 1
        /\ Len(detections) = MAX_RETRIES + 1 => pc \in {"classified", "done"}

C1_Witness == AllHigh /\ Responded /\ calls = MAX_RETRIES + 1 /\ pc = "done"

\* C2: on ExhaustedRefusal the returned text is exactly the text attempt 0
\* emitted, each part once and in order.
C2_ReturnsFirstAttemptText ==
    InExhaustedRefusal => response.text = firstOutput

NoClarification(messages) ==
    \A i \in 1..Len(messages) : messages[i].kind # "clarification"

\* C3: no clarification turn is in a message list handed to the history store,
\* held by the store or returned as message history; what is externalized is
\* the original history (and the response turn).
C3_ClarificationsStayLocal ==
    /\ NoClarification(store)
    /\ NoClarification(allMessages)
    /\ response.type = "stream" => response.originalMessages = allMessages
    /\ \A i \in 1..Len(saveCalls) :
          /\ NoClarification(saveCalls[i])
          /\ SubSeq(saveCalls[i], 1, Len(allMessages)) = allMessages
          /\ Len(saveCalls[i]) = Len(allMessages) + 1

C3_Witness ==
    /\ saveCalls # <<>>
    /\ ~NoClarification(messagesForRetry)
    /\ store = saveCalls[1]

\* C4: an attempt is followed by a clarification and another attempt only when
\* its detection is a refusal with confidence high; with any other detection
\* the attempt goes to Succeeded, nothing is appended and no attempt follows.
C4_OnlyHighRetries ==
    [][ /\ attempt' # attempt =>
            /\ detection.isRefusal /\ detection.confidence = "high"
            /\ Len(messagesForRetry') = Len(messagesForRetry) + 1
        /\ Len(messagesForRetry') > Len(messagesForRetry) /\ pc # "load" /\ pc # "ocr"
               /\ pc # "translate" =>
            detection.isRefusal /\ detection.confidence = "high"
        /\ pc = "classified" /\ detection.confidence \in {"medium", "low"}
               /\ lateLoad' = lateLoad =>
            /\ pc' = "deliver"
            /\ response'.type = "stream"
            /\ attempt' = attempt
            /\ messagesForRetry' = messagesForRetry
        /\ pc \in {"deliver", "finish", "done"} =>
            /\ calls' = calls
            /\ messagesForRetry' = messagesForRetry
      ]_vars

C4_Witness ==
    /\ pc = "deliver"
    /\ detection.isRefusal
    /\ detection.confidence = "medium"
    /\ calls = 1

\* C5: if attempt 0 is not classified as a high-confidence refusal, the loop
\* reaches Succeeded after exactly one backend attempt and the retry-scoped
\* history is as long as the original history.
C5_FirstAttemptSucceeds ==
    (detections # <<>> /\ ~HighRefusal(detections[1])) =>
        /\ calls = 1
        /\ Len(detections) = 1
        /\ attempt = 0
        /\ Len(messagesForRetry) = Len(allMessages)
        /\ pc \in {"classified", "deliver", "finish", "done"}
        /\ Responded => response.type = "stream"

C5_Witness ==
    /\ detections # <<>>
    /\ ~HighRefusal(detections[1])
    /\ pc = "done"
    /\ response.type = "stream"

\* C6: the attempt index stays within 0..MAX_RETRIES and a request makes at
\* most MAX_RETRIES + 1 = 3 backend attempts.
C6_AttemptsBounded ==
    /\ attempt \in 0..MAX_RETRIES
    /\ calls <= MAX_RETRIES + 1
    /\ Len(detections) <= MAX_RETRIES + 1
    /\ MAX_RETRIES + 1 = 3

C6_Witness == attempt = MAX_RETRIES /\ calls = 3 /\ pc = "deliver"

\* C7: the backend call of attempt n+1 is not started before the classification
\* of attempt n has resolved: there is one more call than classifications
\* exactly while the current attempt is buffering, and never two more.
C7_AttemptsSequential ==
    /\ calls <= Len(detections) + 1
    /\ calls = Len(detections) + 1 <=> pc = "buffering"
    /\ pc = "buffering" => attempt = calls - 1

C7_Witness == pc = "buffering" /\ calls = 2 /\ Len(detections) = 1

\* C8: a request without image attachment, or whose image pipeline threw, gets
\* its response only after the start of the generative output was buffered and
\* classified, and a streamed response never follows a high-confidence refusal.
C8_ServedThroughRetryLoop ==
    (Responded /\ path \in {"text", "fallback"}) =>
        /\ detections # <<>>
        /\ response.type = "stream" => ~HighRefusal(detection)

\* C9: on ExhaustedRefusal the response is one plain-text body with status 200,
\* not an error status and not a message stream.
C9_ExhaustedIsPlain200 ==
    InExhaustedRefusal =>
        /\ response.status = 200
        /\ response.type = "plain"
        /\ pc = "done"

C9_Witness == InExhaustedRefusal /\ attempt = MAX_RETRIES /\ response.text # <<>>

\* C10: an attempt whose buffering read failed is reported as non-refusal, is
\* the last attempt of the request and does not end in ExhaustedRefusal.
C10_ReadFailureFailsOpen ==
    \A n \in Attempts :
        readFailed[n] =>
            /\ Len(detections) = n + 1
            /\ ~detections[n + 1].isRefusal
            /\ detections[n + 1].confidence = "low"
            /\ attempt = n
            /\ calls = n + 1
            /\ response.type \in {"none", "stream"}

C10_Witness ==
    /\ readFailed[1]
    /\ MatchesHigh(bufferedText)
    /\ response.type = "stream"

(***************************************************************************)
(* Properties of the stream buffer.                                        *)
(***************************************************************************)
\* C11: bufferAndCheckRefusal goes on reading only while the estimate of the
\* accumulated text is below maxTokensToBuffer; it returns when the estimate
\* reaches the budget or the stream ends; what it accumulated is exactly the
\* chunks it read, in order; the classifier runs once, at the return, on that
\* text and its estimate; and nothing is added to the buffer afterwards.
C11_BuffersUntilBudgetOrEnd ==
    [][ /\ pc' = "buffering" =>
            /\ tokenCount' < maxTokensToBuffer
            /\ bufferedText' = SubSeq(out', 1, pos')
            /\ tokenCount' = estimateTokenCount(bufferedText')
            /\ pc = "buffering" => detections' = detections
        /\ (pc = "buffering" /\ pc' # "buffering" /\ ~readFailed'[attempt]) =>
            /\ pc' = "classified"
            /\ bufferedText' = SubSeq(out', 1, pos')
            /\ Len(out') = pos'
            /\ tokenCount' = estimateTokenCount(bufferedText')
            /\ detections' = Append(detections, detectRefusal(bufferedText', tokenCount'))
            /\ detection' = detectRefusal(bufferedText', tokenCount')
            /\ tokenCount' >= maxTokensToBuffer \/ st' = "ended"
            /\ tokenCount' >= maxTokensToBuffer => pos' = pos + 1
        /\ (pc # "buffering" /\ pc' # "buffering") =>
            /\ bufferedText' = bufferedText
            /\ tokenCount' = tokenCount
            /\ detections' = detections
      ]_vars

C11_Witness ==
    /\ pc = "classified"
    /\ ~readFailed[attempt]
    /\ Len(bufferedText) = 2
    /\ tokenCount >= maxTokensToBuffer
    /\ st = "open"

(***************************************************************************)
(* Properties of the refusal classifier.                                   *)
(***************************************************************************)
\* C12: for every text and every tokenCount > 200, detectRefusal returns
\* isRefusal = false, whatever patterns the text matches.
C12_LateTextIsNeverRefusal ==
    (pc = "classified" /\ tokenCount > 200) => ~detection.isRefusal

C12_Witness ==
    /\ pc = "classified"
    /\ tokenCount > 200
    /\ MatchesHigh(bufferedText)
    /\ MatchesMedium(bufferedText)
    /\ ~detection.isRefusal

\* C13: for tokenCount <= 200, detectRefusal returns high when a
\* high-confidence pattern matches (also when a medium-confidence pattern
\* matches too); medium only when no high-confidence pattern matches,
\* tokenCount < 100 and a medium-confidence pattern matches; and non-refusal
\* with confidence low in every other case.
C13_HighThenMediumThenLow ==
    (pc = "classified" /\ tokenCount <= 200) =>
        /\ MatchesHigh(bufferedText) =>
                detection = [isRefusal |-> TRUE, confidence |-> "high"]
        /\ (~MatchesHigh(bufferedText) /\ tokenCount < 100 /\ MatchesMedium(bufferedText)) =>
                detection = [isRefusal |-> TRUE, confidence |-> "medium"]
        /\ (~MatchesHigh(bufferedText)
                /\ ~(tokenCount < 100 /\ MatchesMedium(bufferedText))) =>
                detection = [isRefusal |-> FALSE, confidence |-> "low"]

C13_Witness ==
    /\ pc = "classified"
    /\ tokenCount < 100
    /\ MatchesHigh(bufferedText)
    /\ MatchesMedium(bufferedText)
    /\ detection.confidence = "high"

\* the languages whose refusals HIGH_CONFIDENCE_PATTERNS covers
CoveredLanguages == {"en", "fr", "es", "de", "ar"}

\* C14: a sample of fewer than 100 estimated tokens that contains a refusal
\* phrasing of one of the covered languages (English, French, Spanish, German,
\* Arabic) is classified as a refusal with confidence high.
C14_ShortRefusalIsHigh ==
    \A lang \in CoveredLanguages :
        (/\ pc = "classified"
         /\ tokenCount < 100
         /\ \E i \in 1..Len(bufferedText) : PatternGroup(bufferedText[i]) = lang) =>
            detection = [isRefusal |-> TRUE, confidence |-> "high"]

C14_Witness ==
    /\ pc = "classified"
    /\ bufferedText = <<"word", "refuse_de">>
    /\ tokenCount = estimateTokenCount(bufferedText)
    /\ tokenCount < 100
    /\ detection.confidence = "high"

(***************************************************************************)
(* Properties of the request handler: failures and the history store.      *)
(***************************************************************************)
\* C15: when OCR, target-language resolution or the start of the translation
\* throws for a request with images, no error response is produced: the
\* handler stands at the entry of the no-image flow with the same messages,
\* and the response the caller gets is the one that flow produces.
C15_PipelineFailureFallsBack ==
    [][ /\ (pc \in {"ocr", "translate"} /\ pc' \notin {"ocr", "translate", "deliver"}) =>
            /\ response' = NoResponse
            /\ path' = "fallback"
            /\ pc' = IF handler = "part_013" THEN "loop" ELSE "direct"
            /\ allMessages' = allMessages
            /\ previousMessages' = previousMessages
            /\ attempt' = 0
            /\ firstRefusalText' = NoText
            /\ handler = "part_013" => messagesForRetry' = allMessages
        /\ req.images > 0 => response'.status \in {0, 200}
        /\ (path' = "fallback" /\ response'.type # "none") =>
            /\ req.images > 0
            /\ response'.type \in {"stream", "plain"}
            /\ response'.type = "stream" => response'.originalMessages = allMessages'
            /\ handler = "part_013" => detections' # <<>>
      ]_vars

C15_Witness ==
    /\ path = "fallback"
    /\ req.images > 0
    /\ response.type = "stream"
    /\ delivered # <<>>
    /\ pc = "done"

\* C16: when the load times out or fails, the request goes on with an empty
\* prior history and gets no error response; the answer of the store that
\* arrives after the timeout changes nothing of the request.
C16_LoadTimeoutProceedsEmpty ==
    [][ /\ (pc = "load" /\ pc' # "load") =>
            /\ previousMessages' \in {store, <<>>}
            /\ lateLoad' = "pending" => previousMessages' = <<>>
            /\ allMessages' = previousMessages' \o <<req.message>>
            /\ response' = NoResponse
            /\ pc' \in {"ocr", "loop", "direct"}
        /\ lateLoad' # "none" =>
            /\ previousMessages' = <<>>
            /\ allMessages' = <<req.message>>
            /\ response'.status \in {0, 200}
        /\ (lateLoad = "pending" /\ lateLoad' = "dropped") =>
            UNCHANGED <<handler, req, store, pc, previousMessages, allMessages,
                        messagesForRetry, attempt, firstRefusalText, out, st, firstOutput,
                        bufferedText, tokenCount, detection, fullText, pos, response,
                        delivered, saveCalls, calls, detections, language, readFailed, path>>
        /\ (pc # "load" /\ pc # "start") =>
            previousMessages' = previousMessages /\ allMessages' = allMessages
      ]_vars

C16_Witness ==
    /\ lateLoad = "dropped"
    /\ store = StoredTurns
    /\ previousMessages = <<>>
    /\ pc = "deliver"
    /\ delivered # <<>>

\* the last save was attempted and the store does not hold its list
LastSaveFailed ==
    /\ saveCalls # <<>>
    /\ store # saveCalls[Len(saveCalls)]

\* C17: a save that fails after the stream completed leaves the response as
\* it was: still the status-200 stream built from the original messages, with
\* the text delivered to the caller untouched, and the handler finishes.
C17_SaveFailureIsSwallowed ==
    LastSaveFailed =>
        /\ pc = "done"
        /\ response = StreamResponse(allMessages)
        /\ response.status = 200
        /\ saveCalls[Len(saveCalls)][Len(allMessages) + 1].text = delivered

C17_Witness ==
    /\ LastSaveFailed
    /\ delivered # <<>>
    /\ response.type = "stream"
    /\ pc = "done"

\* C18: until the save, the prior turns of the request are the stored turns
\* (or none); a list handed to the store is these prior turns, unchanged and in
\* order, then the new user turn, then the produced assistant turn.
C18_SavesPriorTurnsUnchanged ==
    /\ pc \notin {"start", "load", "done"} => previousMessages \in {store, <<>>}
    /\ \A i \in 1..Len(saveCalls) :
          /\ Len(saveCalls[i]) = Len(previousMessages) + 2
          /\ SubSeq(saveCalls[i], 1, Len(previousMessages)) = previousMessages
          /\ saveCalls[i][Len(previousMessages) + 1] = req.message
          /\ saveCalls[i][Len(previousMessages) + 2] =
                 Turn("assistant", "response", delivered)

C18_Witness ==
    /\ saveCalls # <<>>
    /\ previousMessages = StoredTurns
    /\ store = saveCalls[1]
    /\ delivered # <<>>

\* the request lacks a field its handler requires
MissingField ==
    IF handler = "route_GET" THEN req.id = NoId
    ELSE req.message = NoMessage \/ req.id = NoId

\* C19: a request that lacks a required field (the message or the
\* conversation id) gets a 4xx response with a body at once: no phase of the
\* pipeline starts and the status is never 5xx.
C19_MissingFieldIs4xx ==
    MissingField =>
        /\ pc \in {"start", "done"}
        /\ response.status \notin 500..599
        /\ pc = "done" => (response.status \in 400..499 /\ response.text # <<>>)

\* the current message carries the instruction "translate to Spanish"
SpanishInstruction ==
    \E i \in 1..Len(req.message.text) : req.message.text[i] = "to_es"

\* a user turn of the conversation (prior or current) holds Arabic-script text
ArabicScriptInConversation ==
    \/ \E i \in 1..Len(req.message.text) : req.message.text[i] = "arabic"
    \/ \E k \in 1..Len(previousMessages) :
          /\ previousMessages[k].role = "user"
          /\ \E i \in 1..Len(previousMessages[k].text) :
                previousMessages[k].text[i] = "arabic"

\* C20 (as stated): detectConversationLanguage, given a current message with
\* the instruction "translate to Spanish", returns Spanish whatever script
\* signals the rest of the conversation holds.
C20_InstructionWins ==
    (pc = "detected" /\ SpanishInstruction) => language = "es"

\* C20 (amended): given a current message with the instruction "translate to
\* Spanish" and no refusal text, detectConversationLanguage returns Arabic
\* when a user turn of the conversation holds Arabic-script text; it returns
\* Spanish only when no user turn holds Arabic-script text.
C20_ScriptBeatsInstruction ==
    (pc = "detected" /\ SpanishInstruction /\ bufferedText = <<>>) =>
        /\ ArabicScriptInConversation => language = "ar"
        /\ language = "es" => ~ArabicScriptInConversation

C20_Witness ==
    /\ pc = "detected"
    /\ SpanishInstruction
    /\ bufferedText = <<>>
    /\ previousMessages # <<>>
    /\ previousMessages[1].text = <<"arabic">>
    /\ req.message.text = <<"to_es">>
    /\ language = "ar"

\* the user-authored text of the conversation handed to the detector
ConversationText == extractAllText(previousMessages \o <<req.message>>)

\* languages the refusal text's phrases name
RefusalLanguages ==
    {l \in {"fr", "es"} :
        \E i \in 1..Len(bufferedText) : bufferedText[i] = "refuse_" \o l}

\* keyword lists with the highest score, if that score is at least 2
TopKeywordLanguages ==
    {l \in {KeywordOrder[i] : i \in 1..Len(KeywordOrder)} :
        /\ countMatches(ConversationText, l) >= 2
        /\ \A i \in 1..Len(KeywordOrder) :
              countMatches(ConversationText, KeywordOrder[i]) <= countMatches(ConversationText, l)}

\* C21: detectConversationLanguage returns the first signal that fires in
\* the order refusal phrase of a non-default language, Unicode script,
\* keyword score of at least 2, explicit instruction, default language; with
\* no refusal text, Arabic-script user text yields ar whatever the keywords
\* and the instruction say.
C21_FixedOrder ==
    pc = "detected" =>
        IF RefusalLanguages # {} THEN language \in RefusalLanguages
        ELSE IF ArabicScriptInConversation THEN language = "ar"
        ELSE IF TopKeywordLanguages # {} THEN language \in TopKeywordLanguages
        ELSE IF SpanishInstruction THEN language = "es"
        ELSE language = "en"

C21_Witness ==
    /\ pc = "detected"
    /\ bufferedText = <<>>
    /\ req.message.text = <<"french_kw", "to_es">>
    /\ previousMessages # <<>>
    /\ previousMessages[1].text = <<"arabic">>
    /\ language = "ar"

\* no refusal text, only Latin-script user text, at least 2 French keyword
\* matches, no explicit instruction
FrenchKeywordsOnly ==
    /\ pc = "detected"
    /\ bufferedText = <<>>
    /\ ~ArabicScriptInConversation
    /\ countMatches(ConversationText, "fr") >= 2
    /\ ~SpanishInstruction

\* C22 (as stated): detectConversationLanguage returns fr for every input
\* with no refusal text, only Latin-script user text, at least 2 French
\* keyword matches and no explicit instruction.
C22_FrenchKeywordsGiveFrench ==
    FrenchKeywordsOnly => language = "fr"

\* C22 (amended): detectConversationLanguage returns fr for every input
\* with no refusal text, only Latin-script user text, no explicit
\* instruction and at least 2 French keyword matches, provided no other
\* language's keyword list has more matches than the French list.
C22_TopFrenchKeywordsGiveFrench ==
    (/\ FrenchKeywordsOnly
     /\ \A i \in 1..Len(KeywordOrder) :
           countMatches(ConversationText, KeywordOrder[i]) <= countMatches(ConversationText, "fr"))
        => language = "fr"

C22_Witness ==
    /\ FrenchKeywordsOnly
    /\ countMatches(ConversationText, "es") > 0
    /\ countMatches(ConversationText, "es") < countMatches(ConversationText, "fr")
    /\ language = "fr"

\* no phrase of the current message has an indicator followed by a language
\* the map knows
NoIndicatorResolves ==
    \A i \in 1..Len(req.message.text) : req.message.text[i] # "to_en"

\* the language a target code stands for
LanguageOfTarget(t) == IF t = "en-US" THEN "en" ELSE t

\* C23: when no indicator phrase resolves a target, detectTargetLanguage
\* returns a default target that is not the detected conversation language,
\* whichever language the detector returns.
C23_DefaultTargetDiffers ==
    (pc = "targeted" /\ NoIndicatorResolves) =>
        LanguageOfTarget(targetLanguage) #
            detectConversationLanguage(req.message, previousMessages, <<>>)

C23_Witness ==
    /\ pc = "targeted"
    /\ NoIndicatorResolves
    /\ detectConversationLanguage(req.message, previousMessages, <<>>) = "fr"
    /\ targetLanguage = "en-US"

\* the current message carries an instruction that names English
EnglishInstruction ==
    \E i \in 1..Len(req.message.text) : req.message.text[i] \in {"to_en", "this_to_en"}

\* C24: in phase 2 an explicit instruction of the message that names a
\* supported target language (here English, and no other language) decides
\* the target language, whatever the conversation language detector says
\* of the conversation.
C24_InstructionDecidesTarget ==
    (pc = "resolved" /\ EnglishInstruction /\ ~SpanishInstruction) =>
        targetLanguage = "en-US"

(***************************************************************************)
(* Properties of the batch OCR operation.                                  *)
(***************************************************************************)
\* the inputs among the first k whose processing gave a result, in input
\* order, as documents
RECURSIVE SuccessfulDocuments(_)
SuccessfulDocuments(k) ==
    IF k = 0 THEN <<>>
    ELSE IF images[k] \in Confidences
    THEN Append(SuccessfulDocuments(k - 1), [source |-> k, placeholder |-> FALSE])
    ELSE SuccessfulDocuments(k - 1)

\* the batch operation has returned a result and exactly one input failed
OneFailureReturned ==
    /\ pc = "batch_done"
    /\ ocrResult.kind = "result"
    /\ Cardinality({k \in 1..Len(images) : images[k] = "fail"}) = 1

EveryInputFailed == \A k \in 1..Len(images) : images[k] \notin Confidences

AggregatedConfidences == {images[k] : k \in {j \in 1..Len(images) : images[j] \in Confidences}}

\* C27: the overall confidence of a batch result is the lowest of the
\* confidences of the aggregated results (low < medium < high), so it is
\* never high when an aggregated result is low.
C27_OverallConfidenceIsMinimum ==
    (pc = "batch_done" /\ backend # "mistral" /\ ocrResult.kind = "result") =>
        ocrResult.confidence =
            IF "low" \in AggregatedConfidences THEN "low"
            ELSE IF "medium" \in AggregatedConfidences THEN "medium"
            ELSE "high"

C27_Witness ==
    /\ pc = "batch_done"
    /\ backend = "datalab"
    /\ AggregatedConfidences = {"high", "low"}
    /\ ocrResult.kind = "result"
    /\ ocrResult.confidence = "low"

(***************************************************************************)
(* Properties of the asynchronous OCR job.                                 *)
(***************************************************************************)
\* C28: once a status check of the job has reported 'failed', the operation
\* has raised an error for the job; it returns no successful result for it.
C28_FailedStatusRaises ==
    failedSeen => (pc = "image_done" /\ ocrResult.kind = "error")

\* C29: polling makes at most maxAttempts status checks and always ends: by
\* the result of the check that reports 'complete', else by an error.
C29_PollingIsBoundedAndEnds ==
    /\ [](checks <= maxAttempts)
    /\ [](pc = "image_done" => ocrResult.kind \in {"result", "error"})
    /\ <>(pc = "image_done")

C29_Witness ==
    /\ pc = "image_done"
    /\ checks = maxAttempts
    /\ resultData = NoData
    /\ ocrResult = ImageError("timeout")

\* the response that reported 'complete' has no page with text
NoExtractedText == \A k \in 1..Len(resultData) : resultData[k] # "text"

\* C30: a job that is complete with zero pages or with no extracted text
\* makes processImageOCR raise an error, and a result that processImageOCR
\* returns never has empty markdown.
C30_EmptyCompleteRaises ==
    (pc = "image_done" /\ resultData # NoData) =>
        /\ NoExtractedText => ocrResult.kind = "error"
        /\ ocrResult.kind = "result" => ocrResult.markdown # <<>>

(***************************************************************************)
(* Properties of the confidence grading.                                   *)
(***************************************************************************)
\* no text line of the graded response carries a confidence
NoLineConfidence ==
    \A k \in 1..Len(resultData.textLines) : resultData.textLines[k] = <<>>

\* C31: when the backend supplies no per-line confidence, the grade is low for
\* a text under 10 characters or with a special-character ratio above 0.4,
\* otherwise high for a text over 100 characters with structural markers or
\* over 200 characters with more than 20 words, and medium in every other case
C31_HeuristicGrade ==
    (pc = "graded" /\ NoLineConfidence) =>
        ocrResult.confidence =
            IF TooShort(resultData.markdown) \/ Garbled(resultData.markdown) THEN "low"
            ELSE IF Substantial(backend, resultData.markdown) THEN "high"
            ELSE "medium"

(***************************************************************************)
(* Properties of concurrent saves.                                         *)
(***************************************************************************)
\* every saveChat call has returned or thrown
SavesFinished == \A i \in Savers : saving[i].pc \in {"done", "failed"}

\* the call whose redis.set took effect last
LastWriter == setOrder[Len(setOrder)]

\* C32: when requests for the same conversation id save concurrently, the
\* stored conversation afterwards holds exactly the message list of the save
\* that wrote last, never a mixture of the lists
C32_LastWriterWins ==
    (SavesFinished /\ setOrder # <<>>) =>
        /\ redis.exists
        /\ redis.messages = saving[LastWriter].messages

\* two saves of different lists overlapped: both read the stored record
\* before either wrote, and both wrote
C32_Witness ==
    /\ SavesFinished
    /\ Len(setOrder) >= 2
    /\ saving[setOrder[1]].existing.exists
    /\ saving[setOrder[1]].existing = saving[setOrder[2]].existing
    /\ saving[setOrder[1]].messages # saving[setOrder[2]].messages

(***************************************************************************)
(* Properties of the stored conversation.                                  *)
(***************************************************************************)
\* every turn of the list before is a turn of the list after
TurnsKept(before, after) ==
    \A k \in 1..Len(before) : \E j \in 1..Len(after) : after[j] = before[k]

\* C33: a completed request never reduces the stored conversation: every turn
\* stored for the conversation id before the request is still stored after
\* the request's save, also when the history load timed out or failed
C33_StoredTurnsKept == [][TurnsKept(store, store')]_vars

(***************************************************************************)
(* Properties of bufferAndCheckRefusal.                                    *)
(***************************************************************************)
\* C34: the verdict of bufferAndCheckRefusal does not depend on how the
\* backend splits the response into chunks: streams carrying the same text
\* get the same isRefusal and confidence, so a response that opens with a
\* high-confidence refusal phrase is reported high also as one large chunk
C34_ChunkingIrrelevant ==
    pc = "bufferAndCheckRefusal" =>
        \A i, j \in 1..Len(detections) :
            /\ detections[i].isRefusal = detections[j].isRefusal
            /\ detections[i].confidence = detections[j].confidence

(***************************************************************************)
(* Properties of the returned stream.                                      *)
(***************************************************************************)
\* the retry loop has returned the stream of an attempt it classified
SucceededStream ==
    /\ handler = "part_013"
    /\ pc \in {"deliver", "finish", "done"}
    /\ response.type = "stream"

\* C35: on Succeeded the stream returned to the caller carries the attempt's
\* complete output from its first token: the prefix consumed while buffering
\* is neither missing from nor duplicated in what the caller receives and
\* what is persisted
C35_CompleteOutputDelivered ==
    SucceededStream =>
        /\ delivered = SubSeq(out, 1, pos)
        /\ pc # "deliver" => delivered = out
        /\ \A k \in 1..Len(saveCalls) :
            saveCalls[k] = SavedHistory \o <<Turn("assistant", "response", out)>>

\* an attempt whose output went on after the buffered prefix was returned,
\* delivered to its end and saved
C35_Witness ==
    /\ SucceededStream
    /\ pc = "done"
    /\ saveCalls # <<>>
    /\ bufferedText # <<>>
    /\ Len(bufferedText) < Len(out)
    /\ out[1] # out[2]

(***************************************************************************)
(* Properties of the exhausted retry loop.                                 *)
(***************************************************************************)
\* C36: when the retry loop ends in ExhaustedRefusal, the original user
\* request and the returned refusal response are saved to the history store
\* as on Succeeded, so the turn is not missing from the persisted history
C36_ExhaustedRefusalSaved ==
    (pc = "done" /\ response.type = "plain") =>
        /\ saveCalls # <<>>
        /\ store = SavedHistory \o <<Turn("assistant", "response", response.text)>>

(***************************************************************************)
(* Properties of requests with the history switched off.                   *)
(***************************************************************************)
\* the request carries historyEnabled = false
HistoryOff == handler = "route" /\ ~req.historyEnabled

\* C37: when a request carries historyEnabled = false, the handler performs
\* no load from and no save to the history store on any path (image
\* pipeline, fallback or no-image) and processes the request with empty
\* prior history
C37_HistoryOffTouchesNoStore ==
    /\ [](HistoryOff =>
            /\ previousMessages = <<>>
            /\ saveCalls = <<>>
            /\ lateLoad = "none"
            /\ pc \notin {"start", "load"} => allMessages = <<req.message>>)
    /\ [][HistoryOff =>
            /\ store' = store
            /\ ~(LoadOk \/ LoadError \/ LoadTimeout)
            /\ ~(SaveOk \/ SaveFail)]_vars

\* a request with the history off went through the failed image pipeline
\* and the fallback to its end, over a store that holds earlier turns
C37_Witness ==
    /\ HistoryOff
    /\ path = "fallback"
    /\ pc = "done"
    /\ response.type = "stream"
    /\ delivered # <<>>
    /\ store = StoredTurns

(***************************************************************************)
(* Properties of the client store.                                         *)
(***************************************************************************)
\* the only call made on the store is a deleteChat whose server-side delete failed
OnlyDeleteFailed ==
    /\ Len(inflight) = 1
    /\ inflight[1].kind = "deleteChat"
    /\ inflight[1].pc = "thrown"

\* C38: if the server-side delete fails during the optimistic deleteChat, the
\* store is left as if the delete had never been attempted: the chat list,
\* currentChatId and currentMessages equal their values immediately before
\* the call, and the error is rethrown
C38_FailedDeleteRestoresStore ==
    OnlyDeleteFailed =>
        /\ chats = inflight[1].entry[1].chats
        /\ currentChatId = inflight[1].entry[1].currentChatId
        /\ currentMessages = inflight[1].entry[1].currentMessages

\* the only calls made are loadChatMessages for one chat and then for another,
\* and the server has answered both
TwoLoadsAnswered ==
    /\ Len(inflight) = 2
    /\ \A c \in 1..2 : inflight[c].kind = "loadChatMessages" /\ inflight[c].pc = "done"
    /\ inflight[1].chatId # inflight[2].chatId

\* C39: after two overlapping loadChatMessages calls, first for chat A and then
\* for chat B, have both finished, currentChatId and currentMessages refer to
\* chat B, the chat requested last, whichever server response arrived first
C39_LastRequestedChatShown ==
    TwoLoadsAnswered =>
        /\ currentChatId = inflight[2].chatId
        /\ currentMessages = ServerMessages(inflight[2].chatId)

(***************************************************************************)
(* Properties of the browser cache.                                        *)
(***************************************************************************)
\* the cached chat list the cleanup found, most recently updated first
ListBeforeCleanup == getCachedChatList(inflight[1].entry)

\* C40: cleanupOldChats evicts only the oldest cached chats beyond the limit
\* MAX_CACHED_CHATS: when the cached list holds at most 10 chats it removes
\* none, and otherwise it leaves the 10 most recently updated chats cached
C40_EvictsOnlyBeyondLimit ==
    pc = "cleaned" =>
        /\ getCachedChatList(localStorage) = Slice(ListBeforeCleanup, MAX_CACHED_CHATS)
        /\ \A k \in Ids(Slice(ListBeforeCleanup, MAX_CACHED_CHATS)) :
            localStorage.cached[k] = inflight[1].entry.cached[k]

=============================================================================
